---------------------------- MODULE Spec2Model ----------------------------
(***************************************************************************)
(* A model of WDRT/ESSC.py: the environmental-contour estimators (class EA *)
(* and its five subclasses PCA, GaussianCopula, Rosenblatt, ClaytonCopula, *)
(* GumbelCopula).                                                          *)
(*                                                                         *)
(* One estimator object is modelled together with numpy's global random    *)
(* generator.  Floating-point values are fixed-point integers: a real x is *)
(* the integer FxOne * x, an angle is a whole number of degrees, a         *)
(* probability p is the integer PDen * p.  The scipy distribution          *)
(* functions are monotone fixed-point stand-ins with the range of the      *)
(* function they stand for; everything the repository's own code does      *)
(* (array slicing and broadcasting, branches, loops, attribute stores,     *)
(* exceptions, the order of statements) is translated statement by         *)
(* statement.  An exception is an outcome of the call: the attribute       *)
(* stores executed before the raise are kept, the later ones are not.      *)
(***************************************************************************)
EXTENDS Integers, Sequences, FiniteSets

(***************************************************************************)
(* Bounds of the model.                                                    *)
(***************************************************************************)
MaxSteps == 6        \* nb_steps ranges over 2..MaxSteps
MaxK == 2            \* time_r holds 1..MaxK return periods
MaxCalls == 3        \* method calls made on the estimator in one behaviour
MaxSeededCalls == 4  \* the same, where only seeded samples are drawn
MaxPts == 2          \* num_contour_points ranges over 1..MaxPts
MaxBoot == 2         \* boot_size ranges over 1..MaxBoot
MaxQueries == 2      \* T_Sample holds 1..MaxQueries query points
ZeroLinePts == 6     \* points of the Hs = 0 line
MaxNewton == 8       \* Newton-Raphson steps taken by steepness
MaxSizeBin == 3      \* size_bin ranges over 1..MaxSizeBin

(***************************************************************************)
(* The state: one estimator object and numpy's global random generator.    *)
(* An attribute that is None or not yet set holds None.                    *)
(***************************************************************************)
VARIABLES
    cls,                \* the class of the estimator
    buoy,               \* self.buoy: [Hs, T]
    hyper,              \* self.size_bin / n_size, bin_1_limit, bin_step, Ndata
    fit,                \* the fitted parameters computed by __init__
    time_ss, time_r, nb_steps,                  \* set by getContours
    Hs_ReturnContours, T_ReturnContours,        \* the stored contour
    Hs_SampleCA, T_SampleCA,                    \* set by getContourPoints
    Hs_SampleFSS, T_SampleFSS, Weight_SampleFSS, \* set by getSamples
    contourMean_Hs, contourMean_T,              \* set by bootStrap
    rng,                \* the state of np.random
    ret,                \* the outcome of the last call
    fssCall,            \* history: the call that stored the samples kept in
                        \* *_SampleFSS, see StoringCall
    calls               \* the number of calls made

vars == <<cls, buoy, hyper, fit, time_ss, time_r, nb_steps, Hs_ReturnContours,
          T_ReturnContours, Hs_SampleCA, T_SampleCA, Hs_SampleFSS, T_SampleFSS,
          Weight_SampleFSS, contourMean_Hs, contourMean_T, rng, ret, fssCall, calls>>

model == <<cls, buoy, hyper, fit>>
contourArgs == <<time_ss, time_r, nb_steps>>
contour == <<Hs_ReturnContours, T_ReturnContours>>
samplesCA == <<Hs_SampleCA, T_SampleCA>>
samplesFSS == <<Hs_SampleFSS, T_SampleFSS, Weight_SampleFSS, fssCall>>
bootMean == <<contourMean_Hs, contourMean_T>>

\* The outcome of a call: the method, "ok" or the exception raised, the
\* arguments, and the arrays returned.
Outcome(op, outcome, args, val) == [op |-> op, outcome |-> outcome, args |-> args, val |-> val]

(***************************************************************************)
(* Number representation.                                                  *)
(***************************************************************************)
FxOne == 10 * 10             \* fixed-point 1.0
TrigOne == 10 * 10 * 10      \* cos and sin are scaled by TrigOne
TwoPi == 360                 \* 2 * np.pi, in degrees
HoursPerYear == 365 * 24     \* 365 * 24 of p_f = 1 / (365 * (24 / time_ss) * time_r)
PDen == 100 * HoursPerYear   \* probability 1
RngMod == 2 * 2              \* states of the global random generator

Abs(x) == IF x < 0 THEN -x ELSE x
Max2(a, b) == IF a >= b THEN a ELSE b
Min2(a, b) == IF a <= b THEN a ELSE b

\* Division of fixed-point values, rounding toward zero.
FxDiv(a, b) == IF b = 0 THEN 0
               ELSE IF (a >= 0) = (b > 0) THEN Abs(a) \div Abs(b)
               ELSE -(Abs(a) \div Abs(b))

RECURSIVE SumSeq(_)
SumSeq(s) == IF Len(s) = 0 THEN 0 ELSE Head(s) + SumSeq(Tail(s))

\* np.mean, np.amax / np.max, np.amin / min on a non-empty array.
Mean(s) == FxDiv(SumSeq(s), Len(s))
RECURSIVE MaxOf(_)
MaxOf(s) == IF Len(s) = 1 THEN s[1] ELSE Max2(s[1], MaxOf(Tail(s)))
RECURSIVE MinOf(_)
MinOf(s) == IF Len(s) = 1 THEN s[1] ELSE Min2(s[1], MinOf(Tail(s)))

\* np.argmin and np.argmax: the first position of the extreme value (1-based).
ArgMin(s) == CHOOSE i \in 1..Len(s) :
               /\ \A j \in 1..Len(s) : s[i] <= s[j]
               /\ \A j \in 1..(i - 1) : s[j] > s[i]
ArgMax(s) == CHOOSE i \in 1..Len(s) :
               /\ \A j \in 1..Len(s) : s[i] >= s[j]
               /\ \A j \in 1..(i - 1) : s[j] < s[i]

\* The integer square root.
RECURSIVE ISqrtFrom(_, _)
ISqrtFrom(x, r) == LET r2 == (r + x \div r) \div 2
                   IN  IF r2 >= r THEN r ELSE ISqrtFrom(x, r2)
ISqrt(x) == IF x < 1 THEN 0 ELSE ISqrtFrom(x, x)

\* Python's None and attributes not set yet are the empty tuple; a set value
\* v is the one-element tuple <<v>>.
None == << >>
Some(v) == <<v>>
IsSet(o) == Len(o) = 1
Val(o) == o[1]

(***************************************************************************)
(* Tables of the transcendental functions.                                 *)
(***************************************************************************)
\* TrigOne * sin(d degrees), d = 0..90.
SinQ == << 0, 17, 35, 52, 70, 87, 105, 122, 139, 156, 174, 191, 208, 225, 242,
    259, 276, 292, 309, 326, 342, 358, 375, 391, 407, 423, 438, 454, 469, 485,
    500, 515, 530, 545, 559, 574, 588, 602, 616, 629, 643, 656, 669, 682, 695,
    707, 719, 731, 743, 755, 766, 777, 788, 799, 809, 819, 829, 839, 848, 857,
    866, 875, 883, 891, 899, 906, 914, 921, 927, 934, 940, 946, 951, 956, 961,
    966, 970, 974, 978, 982, 985, 988, 990, 993, 995, 996, 998, 999, 999, 1000,
    1000 >>

\* np.sin and np.cos of an angle in degrees.
Sin(deg) == LET d == deg % 360
            IN  IF d <= 90 THEN SinQ[d + 1]
                ELSE IF d <= 180 THEN SinQ[180 - d + 1]
                ELSE IF d <= 270 THEN -SinQ[d - 180 + 1]
                ELSE -SinQ[360 - d + 1]
Cos(deg) == Sin(deg + 90)

\* FxOne * exp(x / 10), x = 0..40.
ExpTab == << 100, 111, 122, 135, 149, 165, 182, 201, 223, 246, 272, 300, 332,
    367, 406, 448, 495, 547, 605, 669, 739, 817, 903, 997, 1102, 1218, 1346,
    1488, 1644, 1817, 2009, 2220, 2453, 2711, 2996, 3312, 3660, 4045, 4470,
    4940, 5460 >>

\* np.exp of a fixed-point value (saturating at exp(4) and exp(-4)).
Exp(x) == LET i == Min2(40, Abs(x) \div 10)
          IN  IF x >= 0 THEN ExpTab[i + 1]
              ELSE Max2(1, FxDiv(FxOne * FxOne, ExpTab[i + 1]))

\* FxOne * ln(t), t = 1..20.
LnTab == << 0, 69, 110, 139, 161, 179, 195, 208, 220, 230, 240, 248, 256, 264,
    271, 277, 283, 289, 294, 300 >>

\* np.log of a fixed-point value of at least 1.0.
Ln(x) == LnTab[Max2(1, Min2(20, x \div FxOne))]

\* 1000 * Phi(u / 10), u = -50..50: the standard normal distribution function.
PhiTab == << 0, 0, 0, 0, 0, 0, 0, 0, 0, 0, 0, 0, 0, 0, 0, 0, 0, 0, 1, 1, 1, 2,
    3, 3, 5, 6, 8, 11, 14, 18, 23, 29, 36, 45, 55, 67, 81, 97, 115, 136, 159,
    184, 212, 242, 274, 309, 345, 382, 421, 460, 500, 540, 579, 618, 655, 691,
    726, 758, 788, 816, 841, 864, 885, 903, 919, 933, 945, 955, 964, 971, 977,
    982, 986, 989, 992, 994, 995, 997, 997, 998, 999, 999, 999, 1000, 1000,
    1000, 1000, 1000, 1000, 1000, 1000, 1000, 1000, 1000, 1000, 1000, 1000,
    1000, 1000, 1000, 1000 >>

\* stats.norm.cdf(u), scaled by TrigOne.
NormCdf(u) == PhiTab[Max2(-50, Min2(50, FxDiv(u, 10))) + 51]

\* stats.norm.ppf(1 - p): the reliability index of the exceedance
\* probability p / PDen.
NormPpfUpper(p) == IF p <= 1 THEN 473
                   ELSE IF p <= 3 THEN 450
                   ELSE IF p <= 10 THEN 424
                   ELSE IF p <= 30 THEN 398
                   ELSE IF p <= 100 THEN 369
                   ELSE IF p <= 300 THEN 340
                   ELSE IF p <= 1000 THEN 305
                   ELSE IF p <= 3000 THEN 270
                   ELSE 0


(***************************************************************************)
(* Array helpers.                                                          *)
(***************************************************************************)
\* An array built element by element, as the tuple of its values.
Arr(a) == a \o << >>

\* a[lo:hi] of Python, lo and hi 0-based: the elements lo+1 .. hi.
Slice(a, lo, hi) == IF hi <= lo THEN << >> ELSE SubSeq(a, lo + 1, Min2(hi, Len(a)))

\* np.argsort (a stable sort on the short arrays of the model) and a[ms].
Rank(keys, i) == 1 + Cardinality({j \in 1..Len(keys) :
                        keys[j] < keys[i] \/ (keys[j] = keys[i] /\ j < i)})
ArgSort(keys) == Arr([r \in 1..Len(keys) |-> CHOOSE i \in 1..Len(keys) : Rank(keys, i) = r])
Take(a, idx) == Arr([r \in 1..Len(idx) |-> a[idx[r]]])

\* np.cumsum.
CumSum(s) == Arr([j \in 1..Len(s) |-> SumSeq(SubSeq(s, 1, j))])

(***************************************************************************)
(* The classes and the data of the Buoy.                                   *)
(***************************************************************************)
Classes == {"PCA", "GaussianCopula", "Rosenblatt", "ClaytonCopula", "GumbelCopula"}

\* self.method, set by each __init__.
MethodString(c) == CASE c = "PCA" -> "Principle component analysis"
                     [] c = "GaussianCopula" -> "Gaussian Copula"
                     [] c = "Rosenblatt" -> "Rosenblatt"
                     [] c = "ClaytonCopula" -> "Clayton Copula"
                     [] c = "GumbelCopula" -> "Gumbel Copula"

\* Buoy.Hs and Buoy.T: the measurement sample handed to the estimator.
BuoyData == { [Hs |-> <<150, 220, 310>>, T |-> <<700, 1000, 800>>],
              [Hs |-> <<310, 150, 220>>, T |-> <<800, 1000, 700>>] }

\* The hyperparameters given to __init__: size_bin of PCA; n_size,
\* bin_1_limit, bin_step of the copula classes; Ndata of GumbelCopula.
\* size_bin is a number of points together with its Python type: a float
\* as the docstrings have it (250.), or an int.
Hyper == [size_bin |-> [val |-> 2, float |-> TRUE], n_size |-> 2,
          bin_1_limit |-> (5 * FxOne) \div 2, bin_step |-> FxOne, Ndata |-> 5]

(***************************************************************************)
(* PCA.__generateParams.                                                   *)
(***************************************************************************)
CoeffDen == 5     \* the entries of coeff are multiples of 1 / CoeffDen

\* sklearn's PCA(n_components=2).fit(...).components_ : an orthonormal basis,
\* first row the axis of the larger variation, sign as the decomposition
\* leaves it.
PcaComponents(b) ==
    LET dHs == MaxOf(b.Hs) - MinOf(b.Hs)
        dT == MaxOf(b.T) - MinOf(b.T)
        mHs == Mean(b.Hs)
        mT == Mean(b.T)
        cov == SumSeq(Arr([i \in 1..Len(b.Hs) |-> (b.Hs[i] - mHs) * (b.T[i] - mT)]))
        sg == IF cov >= 0 THEN 1 ELSE -1
        v1 == IF dT >= dHs THEN <<3 * sg, 4>> ELSE <<4, 3 * sg>>
    IN  <<v1, <<-v1[2], v1[1]>>>>

\* The same basis with each axis in the direction s1, s2 (1 or -1) that the
\* decomposition may return it in.
PcaComponentsSigned(b, s1, s2) ==
    << <<s1 * PcaComponents(b)[1][1], s1 * PcaComponents(b)[1][2]>>,
       <<s2 * PcaComponents(b)[2][1], s2 * PcaComponents(b)[2][2]>> >>

\* The components with the sign of entry [1, 1] turned and no absolute
\* value taken.
SignConventionRaw(comp) == << comp[1], <<comp[2][1], -comp[2][2]>> >>

\* The absolute values of the components, entry [1, 1] left positive.
SignConventionAbs(comp) == << <<Abs(comp[1][1]), Abs(comp[1][2])>>,
                              <<Abs(comp[2][1]), Abs(comp[2][2])>> >>

\* coeff = abs(pca.components_); coeff[1, 1] = -1.0 * coeff[1, 1]
SignConvention(comp) == << <<Abs(comp[1][1]), Abs(comp[1][2])>>,
                           <<Abs(comp[2][1]), -Abs(comp[2][2])>> >>

\* np.dot(np.array((Hs, T)).T, coeff): the two components of one point.
Rotate(hs, t, coeff) == << FxDiv(hs * coeff[1][1] + t * coeff[2][1], CoeffDen),
                           FxDiv(hs * coeff[1][2] + t * coeff[2][2], CoeffDen) >>

\* The smallest component 2 plus 0.1, no absolute value taken.
ShiftSigned(comp2) == MinOf(comp2) + FxOne \div 10

\* shift = abs(min(Comp1_Comp2[:, 1])) + 0.1
ShiftOf(comp2) == Abs(MinOf(comp2)) + FxOne \div 10

\* stats.invgauss.fit(comp1, floc=0): (mu, loc, scale), the mean being
\* mu * scale and the squared coefficient of variation mu.
InvGaussFit(c1) ==
    LET m == Mean(c1)
        sd == Max2(1, (MaxOf(c1) - MinOf(c1)) \div 2)
        cv == FxDiv(FxOne * sd, m)
        mu == Max2(1, FxDiv(cv * cv, FxOne))
    IN  <<mu, 0, FxDiv(FxOne * m, mu)>>

\* optim.curve_fit of the linear __mu_fcn through the bin means.
MuFit(c1, c2) ==
    LET n == Len(c1)
        slope == IF c1[n] = c1[1] THEN 0 ELSE FxDiv(FxOne * (c2[n] - c2[1]), c1[n] - c1[1])
    IN  <<slope, Mean(c2) - FxDiv(slope * Mean(c1), FxOne)>>

\* __sigma_fits: the quadratic whose value at 0 and whose minimum are >= 0.
SigmaFit(c1, c2) == <<0, 0, Max2(FxOne \div 10, MaxOf(c2) - MinOf(c2))>>

\* np.ceil(n_data / size_bin): Python 2 divides an int by an int flooring.
CeilQuotient(n_data, size_bin) ==
    IF size_bin.float THEN (n_data + size_bin.val - 1) \div size_bin.val
    ELSE n_data \div size_bin.val

\* edges = np.hstack((np.arange(0, size_bin * ceil, size_bin), n_data + 1))
Edges(n_data, size_bin) ==
    Arr([i \in 1..CeilQuotient(n_data, size_bin) |-> (i - 1) * size_bin.val])
    \o <<n_data + 1>>

\* np.digitize(x, bins) for increasing bins: how many edges are <= x.
Digitize(x, bins) == Cardinality({i \in 1..Len(bins) : bins[i] <= x})

\* bin_inds = np.digitize(ranks, bins=edges) - 1, ranks = np.arange(n_data)
BinInds(n_data, size_bin) ==
    Arr([r \in 1..n_data |-> Digitize(r - 1, Edges(n_data, size_bin)) - 1])

\* range(np.max(bin_inds) + 1): the number of bins the loop visits.
NumBins(bin_inds) == MaxOf(bin_inds) + 1

\* mask_bins = bin_inds == bin_loop, as the positions it selects.
MaskBins(bin_inds, bin_loop) ==
    SelectSeq(Arr([i \in 1..Len(bin_inds) |-> i]), LAMBDA i : bin_inds[i] = bin_loop)

\* np.mean of column x over each bin: Comp1_mean, and the first row of
\* Comp2_bins_params (the mean that stats.norm.fit returns).
BinMeans(x, bin_inds) ==
    Arr([j \in 1..NumBins(bin_inds) |-> Mean(Take(x, MaskBins(bin_inds, j - 1)))])

\* Lines 390-427 for the components comp that the decomposition returned.
PcaParams(b, size_bin, comp) ==
    LET coeff == SignConvention(comp)
        n == Len(b.Hs)
        c1 == Arr([i \in 1..n |-> Rotate(b.Hs[i], b.T[i], coeff)[1]])
        c2raw == Arr([i \in 1..n |-> Rotate(b.Hs[i], b.T[i], coeff)[2]])
        shift == ShiftOf(c2raw)
        c2 == Arr([i \in 1..n |-> c2raw[i] + shift])
        ms == ArgSort(c1)
        c1s == Take(c1, ms)
        c2s == Take(c2, ms)
        bin_inds == BinInds(n, size_bin)
    IN  [coeff |-> coeff, shift |-> shift, comp1_params |-> InvGaussFit(c1s),
         sigma_param |-> SigmaFit(c1s, c2s),
         mu_param |-> MuFit(BinMeans(c1s, bin_inds), BinMeans(c2s, bin_inds))]

PcaGenerateParams(b, size_bin) == PcaParams(b, size_bin, PcaComponents(b))

\* How __generateParams ends: with its five values, or with the error of
\* the library call that cannot work on the sample.  Which error a sample
\* of one point meets depends on the version of the decomposition, and
\* which error an empty set of bins meets on the version of curve_fit.
PcaFitOutcomes(b, size_bin) ==
    LET nbins == NumBins(BinInds(Len(b.Hs), size_bin))
    IN  IF Len(b.Hs) < 2
        THEN {"ValueError: n_components=2 must be between 0 and min(n_samples, n_features)=1",
              "IndexError: index 1 is out of bounds for axis 0 with size 1"}
        ELSE IF nbins = 0
        THEN {"TypeError: Improper input: N=2 must not exceed M=0",
              "ValueError: ydata must not be empty!"}
        ELSE IF nbins = 1
        THEN {"TypeError: Improper input: N=2 must not exceed M=1"}
        ELSE {"ok"}

(***************************************************************************)
(* EA.__getCopulaParams.                                                   *)
(***************************************************************************)
\* stats.exponweib.fit(Hs, floc=0, fa=1): (a, c, loc, scale).
ExponWeibFit(hs) ==
    LET m == Mean(hs)
        sd == Max2(1, (MaxOf(hs) - MinOf(hs)) \div 2)
    IN  <<FxOne, Max2(FxOne \div 2, Min2(5 * FxOne, FxDiv(FxOne * m, sd))), 0, m>>

\* stats.norm.fit(x): (mean, standard deviation).
NormFit(x) ==
    LET m == Mean(x)
    IN  <<m, ISqrt(Mean(Arr([i \in 1..Len(x) |-> (x[i] - m) * (x[i] - m)])))>>

GetCopulaParams(b, n_size, bin_1_limit, bin_step) ==
    LET sorted_idx == ArgSort(b.Hs)
        Hs == Take(b.Hs, sorted_idx)
        T == Take(b.T, sorted_idx)
        lnT == Arr([i \in 1..Len(T) |-> Ln(T[i])])
        n == Len(Hs)
        slope == IF Hs[n] = Hs[1] THEN 0 ELSE FxDiv(FxOne * (lnT[n] - lnT[1]), Hs[n] - Hs[1])
    IN  [para_dist_1 |-> ExponWeibFit(Hs),
         para_dist_2 |-> NormFit(lnT),
         mean_cond |-> <<Mean(lnT) - FxDiv(slope * Mean(Hs), FxOne), slope, 0, 0>>,
         std_cond |-> <<Max2(1, NormFit(lnT)[2]), 0, 0>>]

\* NaN, which np.log, np.mean and stats.norm.fit return with a warning for
\* a non-positive argument or an empty array.
NaN == "nan"

\* The last value of i in range(1, 200), plus one.
BinLoopEnd == 200

\* sum(Hs_val <= limit for Hs_val in Hs)
CountLeq(Hs, limit) == Cardinality({i \in 1..Len(Hs) : Hs[i] <= limit})

\* Lines 317-323: ind grown from its entries so far, ind[i] of the code
\* being ind[i + 1] here.
RECURSIVE IndFrom(_, _, _, _, _)
IndFrom(Hs, n_size, bin_1_limit, bin_step, ind) ==
    LET i == Len(ind)
        nxt == CountLeq(Hs, bin_1_limit + bin_step * i)
    IN  IF i >= BinLoopEnd THEN ind
        ELSE IF nxt - ind[i] < n_size THEN Append(ind, nxt)
        ELSE IndFrom(Hs, n_size, bin_1_limit, bin_step, Append(ind, nxt))

Ind(Hs, n_size, bin_1_limit, bin_step) ==
    IndFrom(Hs, n_size, bin_1_limit, bin_step, <<CountLeq(Hs, bin_1_limit)>>)

\* Bins that share no observation: each from the previous upper edge on.
CopulaBinsDisjoint(ind, N) ==
    LET num == Len(ind)
    IN  << [lnT |-> <<0, ind[1]>>, Hs |-> <<0, ind[1]>>] >>
        \o Arr([j \in 1..(num - 1) |-> [lnT |-> <<ind[j], ind[j + 1]>>,
                                         Hs |-> <<ind[j], ind[j + 1]>>]])
        \o << [lnT |-> <<ind[num], N>>, Hs |-> <<ind[num], N>>] >>

\* Lines 330-341: for each bin the range(lo, hi) of positions whose ln(T)
\* is fitted and the range whose Hs is averaged, N being len(Hs).
CopulaBins(ind, N) ==
    LET num == Len(ind)
    IN  << [lnT |-> <<0, ind[1]>>, Hs |-> <<0, ind[1] - 1>>],
           [lnT |-> <<0, ind[2]>>, Hs |-> <<0, ind[2] - 1>> ] >>
        \o Arr([j \in 1..(num - 2) |-> [lnT |-> <<ind[j], ind[j + 2]>>,
                                         Hs |-> <<ind[j], ind[j + 2]>>]])
        \o << [lnT |-> <<ind[num - 1], N>>, Hs |-> <<ind[num - 1], N>>] >>

\* range(lo, hi) holds no position.
EmptyRange(r) == r[2] <= r[1]

\* How __getCopulaParams ends.  np.log of a T that is not positive is -inf
\* or NaN: stats.norm.fit then raises or returns NaN, as the version of
\* scipy has it.  A mean or a fit over an empty range is NaN, with which
\* np.linalg.lstsq raises or returns NaN, as the LAPACK build has it.
\* "nan" stands for a return with NaN among the parameters.
CopulaBinOutcomes(T, bins) ==
    IF \E i \in 1..Len(T) : T[i] <= 0
    THEN {"RuntimeError: The data contains non-finite values.", "nan"}
    ELSE IF \E k \in 1..Len(bins) : EmptyRange(bins[k].lnT) \/ EmptyRange(bins[k].Hs)
    THEN {"LinAlgError: SVD did not converge in Linear Least Squares", "nan"}
    ELSE {"ok"}

CopulaFitOutcomes(b, n_size, bin_1_limit, bin_step) ==
    CopulaBinOutcomes(b.T, CopulaBins(Ind(b.Hs, n_size, bin_1_limit, bin_step), Len(b.Hs)))

\* The parameters returned when NaN entered the fit of ln(T).
NanCopulaParams(b) ==
    [para_dist_1 |-> ExponWeibFit(Take(b.Hs, ArgSort(b.Hs))),
     para_dist_2 |-> IF \E i \in 1..Len(b.T) : b.T[i] <= 0
                     THEN <<NaN, NaN>> ELSE NormFit(Arr([i \in 1..Len(b.T) |-> Ln(b.T[i])])),
     mean_cond |-> <<NaN, NaN, NaN, NaN>>,
     std_cond |-> <<NaN, NaN, NaN>>]

\* How __init__ of class c can end on the buoy and the hyperparameters.
FitOutcomes(c, b, h) ==
    IF c = "PCA" THEN PcaFitOutcomes(b, h.size_bin)
    ELSE CopulaFitOutcomes(b, h.n_size, h.bin_1_limit, h.bin_step)

\* What __init__ of class c computes from the buoy and the hyperparameters.
FitOf(c, b, h) == IF c = "PCA" THEN PcaGenerateParams(b, h.size_bin)
                  ELSE GetCopulaParams(b, h.n_size, h.bin_1_limit, h.bin_step)

(***************************************************************************)
(* The IFORM circle shared by the five getContours methods.                *)
(***************************************************************************)
\* p_f = 1 / (365 * (24 / time_ss) * time_r) for one return period.
FailureProb(ts, r) == FxDiv(PDen * ts, HoursPerYear * r)

\* beta = stats.norm.ppf((1 - p_f), loc=0, scale=1)
ReliabilityIndex(ts, r) == NormPpfUpper(FailureProb(ts, r))

\* theta = np.linspace(0, 2 * np.pi, num = nb_steps): the k-th value, k = 1..n.
Linspace(k, n) == IF n = 1 THEN 0 ELSE FxDiv(TwoPi * (k - 1), n - 1)

\* The length of beta * np.cos(theta) under numpy's broadcasting of the K
\* values of beta against the n values of theta; 0 when the shapes do not
\* broadcast (ValueError).
BroadcastLen(K, n) == IF K = 1 \/ K = n THEN n ELSE IF n = 1 THEN K ELSE 0

\* U1 = beta * np.cos(theta); U2 = beta * np.sin(theta)
Circle(ts, tr, n) ==
    LET K == Len(tr)
        beta(j) == ReliabilityIndex(ts, tr[IF K = 1 THEN 1 ELSE j])
        theta(j) == Linspace(IF n = 1 THEN 1 ELSE j, n)
    IN  Arr([j \in 1..BroadcastLen(K, n) |->
            [U1 |-> FxDiv(beta(j) * Cos(theta(j)), TrigOne),
             U2 |-> FxDiv(beta(j) * Sin(theta(j)), TrigOne)]])

(***************************************************************************)
(* PCA.getContours.                                                        *)
(***************************************************************************)
\* stats.invgauss.ppf(stats.norm.cdf(u), mu, loc=0, scale): positive.
InvGaussPpf(u, mu, scale) ==
    Max2(1, FxDiv(FxDiv(mu * scale, FxOne) * Exp(FxDiv(ISqrt(mu * FxOne) * u, FxOne)), FxOne))

\* stats.norm.ppf(stats.norm.cdf(u), loc, scale) for scale > 0.
NormPpf(u, loc, scale) == loc + FxDiv(scale * u, FxOne)

\* __mu_fcn: mu_fit = mu_p_1 * x + mu_p_2
mu_fcn(x, mu_p_1, mu_p_2) == FxDiv(mu_p_1 * x, FxOne) + mu_p_2

\* __sigma_fcn: sigma_fit = sig_p[0] * x**2 + sig_p[1] * x + sig_p[2]
sigma_fcn(sig_p, x) == FxDiv(sig_p[1] * FxDiv(x * x, FxOne), FxOne)
                       + FxDiv(sig_p[2] * x, FxOne) + sig_p[3]

\* The inverse rotation of component 2 as it is, the shift not taken off.
princomp_inv_unshifted(p1, p2, coeff, shift) ==
    LET c00 == coeff[1][1]
        c01 == coeff[1][2]
        den == c01 * c01 + c00 * c00
    IN  << FxDiv((c01 * p2 + c00 * p1) * CoeffDen, den),
           FxDiv((c01 * p1 - c00 * p2) * CoeffDen, den) >>

\* __princomp_inv for one point: (original1, original2).
princomp_inv(p1, p2, coeff, shift) ==
    LET c00 == coeff[1][1]
        c01 == coeff[1][2]
        den == c01 * c01 + c00 * c00
    IN  << FxDiv((c01 * (p2 - shift) + c00 * p1) * CoeffDen, den),
           FxDiv((c01 * p1 - c00 * (p2 - shift)) * CoeffDen, den) >>

\* The Hs of the inverse rotation left as it is: what getContours would
\* return without lines 518-519.
KeepNegative(h) == h

\* Hs_Return = np.maximum(0, Hs_Return), one value.
RemoveNegative(h) == Max2(0, h)

\* The body of PCA.getContours after the three attribute stores: the arrays
\* (Hs_Return, T_Return).
PcaContour(f, ts, tr, n) ==
    LET circ == Circle(ts, tr, n)
        L == Len(circ)
        Comp1_R == Arr([j \in 1..L |->
                       InvGaussPpf(circ[j].U1, f.comp1_params[1], f.comp1_params[3])])
        mu_R == Arr([j \in 1..L |-> mu_fcn(Comp1_R[j], f.mu_param[1], f.mu_param[2])])
        sigma_R == Arr([j \in 1..L |-> sigma_fcn(f.sigma_param, Comp1_R[j])])
        Comp2_R == Arr([j \in 1..L |-> NormPpf(circ[j].U2, mu_R[j], sigma_R[j])])
        orig == Arr([j \in 1..L |-> princomp_inv(Comp1_R[j], Comp2_R[j], f.coeff, f.shift)])
    IN  [Hs |-> Arr([j \in 1..L |-> RemoveNegative(orig[j][1])]),
         T |-> Arr([j \in 1..L |-> orig[j][2]])]

(***************************************************************************)
(* getContours of the four copula classes.                                 *)
(***************************************************************************)
\* stats.exponweib.ppf(stats.norm.cdf(u), a, c, loc, scale): a Weibull
\* quantile, never below loc = 0.
ExponWeibPpf(u, para_dist_1) ==
    Max2(0, FxDiv(para_dist_1[4] * Exp(FxDiv(FxOne * u, 2 * para_dist_1[2])), FxOne))

\* stats.lognorm.ppf(stats.norm.cdf(z), s, loc=0, scale=np.exp(m)) = exp(m + s z)
LogNormPpf(z, s, m) == Exp(m + FxDiv(s * z, FxOne))

\* stats.kendalltau(x, y)[0]: Kendall's tau-b.
KendallTau(x, y) ==
    LET n == Len(x)
        pairs == {p \in (1..n) \X (1..n) : p[1] < p[2]}
        conc == Cardinality({p \in pairs : (x[p[1]] - x[p[2]]) * (y[p[1]] - y[p[2]]) > 0})
        disc == Cardinality({p \in pairs : (x[p[1]] - x[p[2]]) * (y[p[1]] - y[p[2]]) < 0})
        tx == Cardinality({p \in pairs : x[p[1]] = x[p[2]]})
        ty == Cardinality({p \in pairs : y[p[1]] = y[p[2]]})
    IN  FxDiv(FxOne * (conc - disc),
              ISqrt((Cardinality(pairs) - tx) * (Cardinality(pairs) - ty)))

\* The angle tau * pi / 2 in degrees.
TauAngle(tau) == FxDiv(90 * tau, FxOne)

GaussianContour(f, b, ts, tr, n) ==
    LET circ == Circle(ts, tr, n)
        tau == KendallTau(b.T, b.Hs)
        \* rho_gau = sin(tau * pi / 2); sqrt(1 - rho_gau**2) is the cosine
        z2(j) == FxDiv(circ[j].U2 * Cos(TauAngle(tau)) + Sin(TauAngle(tau)) * circ[j].U1,
                       TrigOne)
    IN  [Hs |-> Arr([j \in 1..Len(circ) |-> ExponWeibPpf(circ[j].U1, f.para_dist_1)]),
         T |-> Arr([j \in 1..Len(circ) |->
                   LogNormPpf(z2(j), f.para_dist_2[2], f.para_dist_2[1])])]

\* mean_cond[0] + mean_cond[1] h + mean_cond[2] h**2 + mean_cond[3] h**3
Cubic(c, h) == LET h2 == FxDiv(h * h, FxOne)
               IN  c[1] + FxDiv(c[2] * h, FxOne) + FxDiv(c[3] * h2, FxOne)
                   + FxDiv(c[4] * FxDiv(h2 * h, FxOne), FxOne)

\* std_cond[0] + std_cond[1] h + std_cond[2] h**2
Quadratic(c, h) == c[1] + FxDiv(c[2] * h, FxOne) + FxDiv(c[3] * FxDiv(h * h, FxOne), FxOne)

RosenblattContour(f, b, ts, tr, n) ==
    LET circ == Circle(ts, tr, n)
        comp_1(j) == ExponWeibPpf(circ[j].U1, f.para_dist_1)
    IN  [Hs |-> Arr([j \in 1..Len(circ) |-> comp_1(j)]),
         T |-> Arr([j \in 1..Len(circ) |->
                   LogNormPpf(circ[j].U2, Quadratic(f.std_cond, comp_1(j)),
                              Cubic(f.mean_cond, comp_1(j)))])]

\* The normal score of z2_Clay, the Clayton conditional distribution function
\* at (norm.cdf(U1), norm.cdf(U2)) with theta_clay = 2 tau / (1 - tau).
ClaytonScore(u1, u2, tau) ==
    LET theta_clay == FxDiv(2 * tau * FxOne, FxOne - tau)
    IN  u2 + FxDiv(theta_clay * u1, FxOne + Abs(theta_clay))

ClaytonContour(f, b, ts, tr, n) ==
    LET circ == Circle(ts, tr, n)
        tau == KendallTau(b.T, b.Hs)
    IN  [Hs |-> Arr([j \in 1..Len(circ) |-> ExponWeibPpf(circ[j].U1, f.para_dist_1)]),
         T |-> Arr([j \in 1..Len(circ) |->
                   LogNormPpf(ClaytonScore(circ[j].U1, circ[j].U2, tau),
                              f.para_dist_2[2], f.para_dist_2[1])])]

\* self.max_limit_2 = np.ceil(np.amax(self.buoy.T) * 2); min_limit_2 = 0.
MaxLimit2(b) == FxOne * ((2 * MaxOf(b.T) + FxOne - 1) \div FxOne)

\* x2 = np.linspace(self.min_limit_2, self.max_limit_2, self.Ndata)
GridX2(b, Ndata) == Arr([j \in 1..Ndata |-> FxDiv(MaxLimit2(b) * (j - 1), Ndata - 1)])

\* p_x2_x1 at one grid value x: the Gumbel copula density (__gumbelCopula,
\* NaN replaced by 0) times the lognormal density of component 2; it is 0 at
\* x = 0 and concentrated around the conditional median.
GumbelCondPdf(x, u1, tau, para_dist_2) ==
    LET theta_gum == FxDiv(FxOne * FxOne, FxOne - tau)
        centre == Exp(para_dist_2[1]
                      + FxDiv(para_dist_2[2] * FxDiv((theta_gum - FxOne) * u1, theta_gum),
                              FxOne))
    IN  Max2(0, centre \div 2 - Abs(x - centre))

\* The loop over j without its second break: the value the last pass
\* stores.
GumbelSearchLast(fi, x2, cdf, j, cur) ==
    IF fi <= cdf[1] THEN MinOf(x2)
    ELSE IF fi <= cdf[Len(x2)] THEN (x2[Len(x2)] + x2[Len(x2) - 1]) \div 2
    ELSE MaxOf(x2)

\* The inner loop "for j in range(self.Ndata)" of GumbelCopula.getContours:
\* comp_2_Gumb[k] for the target fi = fi_u2[k] on the table (x2, cdf); j is
\* the 1-based loop position and cur the value stored so far.
RECURSIVE GumbelSearch(_, _, _, _, _)
GumbelSearch(fi, x2, cdf, j, cur) ==
    IF j > Len(x2) THEN cur
    ELSE IF fi <= cdf[1] THEN MinOf(x2)
    ELSE IF fi <= cdf[j] THEN (x2[j] + x2[j - 1]) \div 2
    ELSE GumbelSearch(fi, x2, cdf, j + 1, MaxOf(x2))

\* Lines 1408-1413 for one angle: cdf, the running sum of p_x2_x1 over the
\* grid divided by its last value, u1 being U1[k].
GumbelTable(f, b, Ndata, u1) ==
    LET x2 == GridX2(b, Ndata)
        tau == KendallTau(b.T, b.Hs)
        dum == CumSum(Arr([j \in 1..Ndata |-> GumbelCondPdf(x2[j], u1, tau, f.para_dist_2)]))
    IN  Arr([j \in 1..Ndata |-> FxDiv(TrigOne * dum[j], dum[Ndata])])

GumbelContour(f, b, Ndata, ts, tr, n) ==
    LET circ == Circle(ts, tr, n)
        x2 == GridX2(b, Ndata)
    IN  [Hs |-> Arr([j \in 1..Len(circ) |-> ExponWeibPpf(circ[j].U1, f.para_dist_1)]),
         T |-> Arr([k \in 1..n |->
                   GumbelSearch(NormCdf(circ[k].U2), x2,
                                GumbelTable(f, b, Ndata, circ[k].U1), 1, 0)])]

\* The contour with the state of the global random generator added to its
\* wave heights: what getContours would return if draws made by other
\* operations entered the computation.
ContourOfGenerator(c, f, b, h, ts, tr, n) ==
    LET r == CASE c = "PCA" -> PcaContour(f, ts, tr, n)
               [] c = "GaussianCopula" -> GaussianContour(f, b, ts, tr, n)
               [] c = "Rosenblatt" -> RosenblattContour(f, b, ts, tr, n)
               [] c = "ClaytonCopula" -> ClaytonContour(f, b, ts, tr, n)
               [] c = "GumbelCopula" -> GumbelContour(f, b, h.Ndata, ts, tr, n)
    IN  [Hs |-> Arr([k \in 1..Len(r.Hs) |-> r.Hs[k] + rng]), T |-> r.T]

\* The arrays (Hs_Return, T_Return) that getContours of class c computes.
ContourOf(c, f, b, h, ts, tr, n) ==
    CASE c = "PCA" -> PcaContour(f, ts, tr, n)
      [] c = "GaussianCopula" -> GaussianContour(f, b, ts, tr, n)
      [] c = "Rosenblatt" -> RosenblattContour(f, b, ts, tr, n)
      [] c = "ClaytonCopula" -> ClaytonContour(f, b, ts, tr, n)
      [] c = "GumbelCopula" -> GumbelContour(f, b, h.Ndata, ts, tr, n)

(***************************************************************************)
(* numpy's global random generator np.random.                              *)
(***************************************************************************)
RngStates == 0..(RngMod - 1)
NextRng(s) == (5 * s + 3) % RngMod

\* The state of the generator after k draws.
RECURSIVE RngAfter(_, _)
RngAfter(s, k) == IF k = 0 THEN s ELSE RngAfter(NextRng(s), k - 1)

\* The generator left where the earlier draws put it: what the draws of
\* __generateData would start from without line 647.
SeedSkipped(seed) == rng

\* np.random.seed(seed) with an integer seed.
SeedState(seed) == (7 * seed + 1) % RngMod

\* width * np.random.random_sample(), for the k-th draw made from state s.
RandomSample(s, k, width) == FxDiv(RngAfter(s, k) * width, RngMod)

\* np.random.randint(0, high=n, size=n) drawn from state s: n indices.
RandInt(s, n) == Arr([k \in 1..n |-> (RngAfter(s, k) * n) \div RngMod])

(***************************************************************************)
(* PCA.getSamples: the Hs = 0 line in the standard normal space.           *)
(***************************************************************************)
\* Te_zeroline = np.linspace(2.5, 30, 1000), on ZeroLinePts points.
Te_zeroline == Arr([k \in 1..ZeroLinePts |->
                   (5 * FxOne) \div 2
                   + FxDiv((30 * FxOne - (5 * FxOne) \div 2) * (k - 1), ZeroLinePts - 1)])

\* stats.norm.ppf(stats.invgauss.cdf(x, mu, loc=0, scale), 0, 1): the
\* inverse of InvGaussPpf.
NormOfInvGauss(x, mu, scale) ==
    FxDiv(FxOne * (Ln(x) - Ln(FxDiv(mu * scale, FxOne))), ISqrt(mu * FxOne))

\* The angle in 0..90 degrees of the point (x, y), x >= 0 and y >= 0: the
\* first whole degree d from d0 on with tan(d) >= y / x.
RECURSIVE QuadrantAngle(_, _, _)
QuadrantAngle(x, y, d0) ==
    IF d0 >= 90 \/ y * Cos(d0) <= x * Sin(d0) THEN d0 ELSE QuadrantAngle(x, y, d0 + 1)

\* Theta_zeroline = np.arctan2(C2, C1), plus 2 * np.pi where negative:
\* degrees in 0..359.
ThetaOf(c2, c1) ==
    LET a == QuadrantAngle(Abs(c1), Abs(c2), 0)
    IN  IF c1 >= 0 /\ c2 >= 0 THEN a
        ELSE IF c2 >= 0 THEN 180 - a
        ELSE IF c1 < 0 THEN 180 + a
        ELSE (360 - a) % 360

\* (Theta_zeroline, Rho_zeroline) after the mask C1_normzeroline > minval.
ZeroLine(f, minval) ==
    LET pts == Arr([k \in 1..ZeroLinePts |->
                   LET comp == Rotate(0, Te_zeroline[k], f.coeff)
                       c0 == comp[1]
                       c1 == comp[2] + f.shift
                       mu_zeroline == mu_fcn(c0, f.mu_param[1], f.mu_param[2])
                       sigma_zeroline == sigma_fcn(f.sigma_param, c0)
                   IN  [C1 |-> NormOfInvGauss(c0, f.comp1_params[1], f.comp1_params[3]),
                        C2 |-> FxDiv(FxOne * (c1 - mu_zeroline), sigma_zeroline)]])
        kept == SelectSeq(pts, LAMBDA q : q.C1 > minval)
    IN  Arr([k \in 1..Len(kept) |->
            [Theta |-> ThetaOf(kept[k].C2, kept[k].C1),
             Rho |-> ISqrt(kept[k].C1 * kept[k].C1 + kept[k].C2 * kept[k].C2)]])

(***************************************************************************)
(* PCA.__generateData and PCA.__transformSamples.                          *)
(***************************************************************************)
\* 0.1 radian, in degrees: the slack of np.arange's upper limit.
ArangeSlack == 2 * 3

\* The sampling bounds of one contour interval: the angles at which the
\* Hs = 0 line crosses the circle of radius beta_next, or the whole circle.
AlphaBounds(zl, beta_next) ==
    LET r == Arr([k \in 1..Len(zl) |-> zl[k].Rho - beta_next])
        neg == {k \in 1..Len(zl) : r[k] < 0}
        far == {k \in 1..Len(zl) : r[k] < -(FxOne \div 100)}
        left == CHOOSE k \in far : \A m \in far : k <= m
        right == CHOOSE k \in far : \A m \in far : k >= m
    IN  IF neg = {} THEN [status |-> "ok", lo |-> 0, hi |-> TwoPi]
        ELSE IF far = {} THEN [status |-> "ValueError", lo |-> 0, hi |-> 0]
        ELSE [status |-> "ok",
              lo |-> Min2(zl[left].Theta, zl[right].Theta - TwoPi),
              hi |-> Max2(zl[left].Theta, zl[right].Theta - TwoPi)]

\* Angular_dist[i] = sum(abs(Alpha_bounds[i]))
AngularDist(ab) == Abs(ab.lo) + Abs(ab.hi)

\* len(np.arange(lo, hi + 0.1, Angular_dist / num_contour_points))
ArangeLen(ab, num_contour_points) ==
    LET span == (ab.hi + ArangeSlack - ab.lo) * num_contour_points
        dist == AngularDist(ab)
    IN  (span + dist - 1) \div dist

\* The denominator of a weight that is not shared among the points of its
\* interval: line 681 without the division by num_contour_points.
WeightDenPerInterval(num_contour_points) == PDen * TwoPi

\* The denominator of Weight[i]: probabilities are counted in PDen-ths,
\* Angular_ratio divides by 2 * np.pi and line 681 by num_contour_points.
WeightDen(num_contour_points) == PDen * TwoPi * num_contour_points

\* One contour interval i of the loop, before the draws: its bounds, the
\* grid Alpha[i, :] and Weight[i] as the fraction num / den.
Interval(zl, beta_lines, contour_probs, num_contour_points, i) ==
    LET ab == AlphaBounds(zl, beta_lines[i + 1])
        dist == AngularDist(ab)
    IN  IF ab.status # "ok" THEN [status |-> ab.status]
        ELSE IF ArangeLen(ab, num_contour_points) # num_contour_points + 1
        THEN [status |-> "ValueError"]
        ELSE [status |-> "ok",
              Alpha |-> Arr([j \in 1..(num_contour_points + 1) |->
                            ab.lo + FxDiv((j - 1) * dist, num_contour_points)]),
              Weight |-> [num |-> (contour_probs[i] - contour_probs[i + 1]) * dist,
                          den |-> WeightDen(num_contour_points)]]

\* __generateData after np.random.seed left the generator in state s0.
GenerateData(beta_lines, zl, num_contour_points, contour_probs, s0) ==
    LET K == Len(beta_lines) - 1
        np == num_contour_points
        iv == Arr([i \in 1..K |-> Interval(zl, beta_lines, contour_probs, np, i)])
        bad == {i \in 1..K : iv[i].status # "ok"}
        first == CHOOSE i \in bad : \A m \in bad : i <= m
        I(q) == ((q - 1) \div np) + 1
        J(q) == ((q - 1) % np) + 1
    IN  IF bad # {}
        THEN [status |-> iv[first].status, rng |-> RngAfter(s0, 2 * np * (first - 1))]
        ELSE [status |-> "ok",
              rng |-> RngAfter(s0, 2 * np * K),
              Sample_beta |-> Arr([q \in 1..(K * np) |->
                  beta_lines[I(q)]
                  + RandomSample(s0, 2 * q - 1, beta_lines[I(q) + 1] - beta_lines[I(q)])]),
              Sample_alpha |-> Arr([q \in 1..(K * np) |->
                  iv[I(q)].Alpha[J(q)]
                  + RandomSample(s0, 2 * q, iv[I(q)].Alpha[J(q) + 1] - iv[I(q)].Alpha[J(q)])]),
              Weight_points |-> Arr([q \in 1..(K * np) |-> iv[I(q)].Weight])]

\* __transformSamples for one sample: (Hs_Sample, T_Sample).
TransformSample(f, alpha, beta) ==
    LET Sample_U1 == FxDiv(beta * Cos(alpha), TrigOne)
        Sample_U2 == FxDiv(beta * Sin(alpha), TrigOne)
        Comp1_sample == InvGaussPpf(Sample_U1, f.comp1_params[1], f.comp1_params[3])
        mu_sample == mu_fcn(Comp1_sample, f.mu_param[1], f.mu_param[2])
        sigma_sample == sigma_fcn(f.sigma_param, Comp1_sample)
        Comp2_sample == NormPpf(Sample_U2, mu_sample, sigma_sample)
    IN  princomp_inv(Comp1_sample, Comp2_sample, f.coeff, f.shift)

\* The samples with a single weight, that of the first sample, in place of
\* one weight for each sample.
TransformSamplesOneWeight(f, g) ==
    IF g.status # "ok" THEN g
    ELSE [status |-> "ok", rng |-> g.rng,
          Hs_Sample |-> Arr([q \in 1..Len(g.Sample_alpha) |->
                            TransformSample(f, g.Sample_alpha[q], g.Sample_beta[q])[1]]),
          T_Sample |-> Arr([q \in 1..Len(g.Sample_alpha) |->
                           TransformSample(f, g.Sample_alpha[q], g.Sample_beta[q])[2]]),
          Weight_points |-> <<g.Weight_points[1]>>]

\* Lines 631-639: the generated data g turned into samples of (Hs, T); a
\* failure of __generateData passes through.
TransformSamples(f, g) ==
    IF g.status # "ok" THEN g
    ELSE [status |-> "ok", rng |-> g.rng,
          Hs_Sample |-> Arr([q \in 1..Len(g.Sample_alpha) |->
                            TransformSample(f, g.Sample_alpha[q], g.Sample_beta[q])[1]]),
          T_Sample |-> Arr([q \in 1..Len(g.Sample_alpha) |->
                           TransformSample(f, g.Sample_alpha[q], g.Sample_beta[q])[2]]),
          Weight_points |-> g.Weight_points]

\* Lines 602 and 610: contour_probs, with probability 1 put in front.
ContourProbs(ts, contour_returns) ==
    <<PDen>> \o Arr([i \in 1..Len(contour_returns) |-> FailureProb(ts, contour_returns[i])])

\* Lines 604-606: beta_lines, with radius 0 put in front.
BetaLines(ts, contour_returns) ==
    <<0>> \o Arr([i \in 1..Len(contour_returns) |->
                  NormPpfUpper(FailureProb(ts, contour_returns[i]))])

\* Lines 614-629: the Hs = 0 line kept by the mask C1 > minval, where
\* minval = np.amin(U1_lines) - 0.5 and the least U1 on the circles is
\* -max(beta_lines).
SamplingZeroLine(f, beta_lines) == ZeroLine(f, -MaxOf(beta_lines) - FxOne \div 2)

\* The body of PCA.getSamples from the read of self.time_ss on, the
\* generator being in state s0 after np.random.seed.
PcaSamples(f, ts, num_contour_points, contour_returns, s0) ==
    TransformSamples(f, GenerateData(BetaLines(ts, contour_returns),
                                     SamplingZeroLine(f, BetaLines(ts, contour_returns)),
                                     num_contour_points,
                                     ContourProbs(ts, contour_returns), s0))

(***************************************************************************)
(* EA.getContourPoints.                                                    *)
(***************************************************************************)
\* Lines 128-138: the split of the stored contour at argmin(T) and
\* argmax(T) and the choice of the branch.  When w1 has the larger maximum
\* the code assigns x1 and y, never y1, and line 142 reads y1.
Branch(T, Hs) ==
    LET amin == ArgMin(T) - 1
        amax == ArgMax(T) - 1
        w1 == Slice(Hs, amin, amax)
        w2 == Slice(Hs, amax, Len(Hs)) \o Slice(Hs, 0, amin)
    IN  IF Len(w1) = 0
        THEN [status |-> "ValueError: zero-size array to reduction operation"]
        ELSE IF MaxOf(w1) > MaxOf(w2)
        THEN [status |-> "UnboundLocalError: y1"]
        ELSE [status |-> "ok",
              x1 |-> Slice(T, amax, Len(T)) \o Slice(T, 0, amin),
              y1 |-> w2]

\* si = interp.interp1d(x, y); si(q): linear interpolation at one query
\* point inside [x[0], x[-1]].  Two equal abscissae give a zero denominator
\* (nan in the code), which FxDiv turns into slope 0.
Interp1d(x, y, q) ==
    LET n == Len(x)
        above == {i \in 1..n : x[i] >= q}
        idx == CHOOSE i \in above : \A m \in above : i <= m
        hi == Max2(2, Min2(n, idx))
        lo == hi - 1
    IN  y[lo] + FxDiv((y[hi] - y[lo]) * (q - x[lo]), x[hi] - x[lo])

\* The interpolation with the query points clamped into the range of x:
\* what interp1d would do if it did not reject a point outside the range.
ContourPointsClamped(T, Hs, T_Sample) ==
    LET br == Branch(T, Hs)
        ms == ArgSort(br.x1)
        x == Take(br.x1, ms)
        y == Take(br.y1, ms)
    IN  IF br.status # "ok" THEN br
        ELSE IF Len(x) < 2
        THEN [status |-> "ValueError: x and y arrays must have at least 2 entries"]
        ELSE [status |-> "ok",
              Hs_SampleCA |-> Arr([k \in 1..Len(T_Sample) |->
                  Interp1d(x, y, Max2(x[1], Min2(x[Len(x)], T_Sample[k])))])]

\* Lines 128-146: the outcome of the interpolation for the queries T_Sample.
ContourPoints(T, Hs, T_Sample) ==
    LET br == Branch(T, Hs)
        ms == ArgSort(br.x1)
        x == Take(br.x1, ms)
        y == Take(br.y1, ms)
    IN  IF br.status # "ok" THEN br
        ELSE IF Len(x) < 2
        THEN [status |-> "ValueError: x and y arrays must have at least 2 entries"]
        ELSE IF \E k \in 1..Len(T_Sample) : T_Sample[k] < x[1] \/ T_Sample[k] > x[Len(x)]
        THEN [status |-> "ValueError: A value in x_new is outside the interpolation range"]
        ELSE [status |-> "ok",
              Hs_SampleCA |-> Arr([k \in 1..Len(T_Sample) |-> Interp1d(x, y, T_Sample[k])])]

(***************************************************************************)
(* EA.bootStrap.                                                           *)
(***************************************************************************)
\* Lines 266-275: the class the replicate is built with, None when no
\* comparison with self.method holds and essccopy stays unbound.
BootDispatch(method) ==
    IF method = "PCA" THEN Some("PCA")
    ELSE IF method = "GaussianCopula" THEN Some("GaussianCopula")
    ELSE IF method = "Rosenblatt" THEN Some("Rosenblatt")
    ELSE IF method = "ClaytonCopula" THEN Some("ClaytonCopula")
    ELSE IF method = "GumbelCopula" THEN Some("GumbelCopula")
    ELSE None

\* buoycopy.Hs = self.buoy.Hs[boot_inds]; buoycopy.T = self.buoy.T[boot_inds]
Resample(b, boot_inds) ==
    [Hs |-> Arr([k \in 1..Len(boot_inds) |-> b.Hs[boot_inds[k] + 1]]),
     T |-> Arr([k \in 1..Len(boot_inds) |-> b.T[boot_inds[k] + 1]])]

\* self.buoy after lines 264-265 if buoycopy were self.buoy itself.
BuoyAliased(own, resampled) == resampled

\* self.buoy after lines 264-265: buoycopy being a deep copy (line 260),
\* the estimator's own buoy keeps its arrays.
BuoyAfterResample(own, resampled) == own

\* np.percentile(v, q / 10) of the values v, with linear interpolation.
Percentile(v, q) ==
    LET sorted == Take(v, ArgSort(v))
        pos == q * (Len(v) - 1)
        lo == pos \div 1000 + 1
        hi == Min2(Len(v), lo + 1)
    IN  sorted[lo] + FxDiv((pos % 1000) * (sorted[hi] - sorted[lo]), 1000)

\* The replicate contours of lines 262-276, the generator being in state s0.
BootContours(c, b, h, ts, tr, n, boot_size, s0) ==
    LET N == Len(b.Hs)
        cl == BootDispatch(MethodString(c))
    IN  Arr([i \in 1..boot_size |->
            LET buoycopy == Resample(b, RandInt(RngAfter(s0, (i - 1) * N), N))
            IN  ContourOf(Val(cl), FitOf(Val(cl), buoycopy, h), buoycopy, h, ts, tr, n)])

\* The statistics with the upper percentiles where the means belong.
BootStatisticsUpper(boot, n) ==
    LET Hs_col(j) == Arr([i \in 1..Len(boot) |-> boot[i].Hs[j]])
        T_col(j) == Arr([i \in 1..Len(boot) |-> boot[i].T[j]])
    IN  [contour97_5_Hs |-> Arr([j \in 1..n |-> Percentile(Hs_col(j), 975)]),
         contour2_5_Hs |-> Arr([j \in 1..n |-> Percentile(Hs_col(j), 25)]),
         contourmean_Hs |-> Arr([j \in 1..n |-> Percentile(Hs_col(j), 975)]),
         contour97_5_T |-> Arr([j \in 1..n |-> Percentile(T_col(j), 975)]),
         contour2_5_T |-> Arr([j \in 1..n |-> Percentile(T_col(j), 25)]),
         contourmean_T |-> Arr([j \in 1..n |-> Percentile(T_col(j), 975)])]

\* Lines 278-284: the percentiles and the mean, at each of the n contour
\* points, of the replicate contours boot.
BootStatistics(boot, n) ==
    LET Hs_col(j) == Arr([i \in 1..Len(boot) |-> boot[i].Hs[j]])
        T_col(j) == Arr([i \in 1..Len(boot) |-> boot[i].T[j]])
    IN  [contour97_5_Hs |-> Arr([j \in 1..n |-> Percentile(Hs_col(j), 975)]),
         contour2_5_Hs |-> Arr([j \in 1..n |-> Percentile(Hs_col(j), 25)]),
         contourmean_Hs |-> Arr([j \in 1..n |-> Mean(Hs_col(j))]),
         contour97_5_T |-> Arr([j \in 1..n |-> Percentile(T_col(j), 975)]),
         contour2_5_T |-> Arr([j \in 1..n |-> Percentile(T_col(j), 25)]),
         contourmean_T |-> Arr([j \in 1..n |-> Mean(T_col(j))])]

\* Lines 257-304 from the loop on: the outcome, the state the generator is
\* left in, and on success the statistics of the replicates.
BootResult(c, b, h, ts, tr, n, boot_size, s0) ==
    IF ~IsSet(BootDispatch(MethodString(c)))
    THEN [status |-> "UnboundLocalError: essccopy", rng |-> RngAfter(s0, Len(b.Hs))]
    ELSE IF BroadcastLen(Len(tr), n) = 0
    THEN [status |-> "ValueError: operands could not be broadcast together",
          rng |-> RngAfter(s0, Len(b.Hs))]
    ELSE [status |-> "ok", rng |-> RngAfter(s0, Len(b.Hs) * boot_size),
          stats |-> BootStatistics(BootContours(c, b, h, ts, tr, n, boot_size, s0), n)]

(***************************************************************************)
(* EA.steepness: the wave height of limiting steepness at each period.     *)
(***************************************************************************)
Gravity == 981    \* g = 9.81 m/s^2, fixed-point
TwoPiFx == 628    \* 2 * np.pi, fixed-point

\* np.tanh of a non-negative fixed-point value.
Tanh(x) == FxDiv(FxOne * (Exp(2 * x) - FxOne), Exp(2 * x) + FxOne)

\* f0 = (omega ** 2) * depth / g - kh0 * np.tanh(kh0), w2dg being the
\* first term.
Dispersion(w2dg, kh) == w2dg - FxDiv(kh * Tanh(kh), FxOne)

\* The Newton-Raphson loop of lines 213-221: at most left more steps from
\* kh, stopping once a step no longer changes the residual.
RECURSIVE NewtonRaphson(_, _, _)
NewtonRaphson(w2dg, kh0, left) ==
    LET f0 == Dispersion(w2dg, kh0)
        df0 == -Tanh(kh0) - FxDiv(kh0 * (FxOne - FxDiv(Tanh(kh0) * Tanh(kh0), FxOne)), FxOne)
        kh == FxDiv(-f0 * FxOne, df0) + kh0
    IN  IF left = 0 THEN kh0
        ELSE IF Dispersion(w2dg, kh) = f0 THEN kh
        ELSE NewtonRaphson(w2dg, kh, left - 1)

\* lambdaT of one period: the wavelength at the given depth.
WaveLength(depth, t) ==
    LET omega == FxDiv(TwoPiFx * FxOne, t)
        w2dg == FxDiv(FxDiv(omega * omega, FxOne) * depth, Gravity)
        kh == FxDiv(w2dg * FxOne, ISqrt(Tanh(w2dg) * FxOne))
    IN  FxDiv(TwoPiFx * depth, NewtonRaphson(w2dg, kh, MaxNewton))

\* SteepH = lambdaT * SteepMax
SteepH(depth, SteepMax, T_vals) ==
    Arr([k \in 1..Len(T_vals) |-> FxDiv(WaveLength(depth, T_vals[k]) * SteepMax, FxOne)])

(***************************************************************************)
(* The arguments the calls are made with.                                  *)
(***************************************************************************)
SeaStateHours == {1, 3}
ReturnPeriods == {10, 100}
TimeRSet == {s \in UNION {[1..k -> ReturnPeriods] : k \in 1..MaxK} :
                \A i \in 1..(Len(s) - 1) : s[i] < s[i + 1]}
NbStepsSet == 2..MaxSteps
QueryValues == {6 * FxOne, 25 * FxOne}
QuerySet == UNION {[1..k -> QueryValues] : k \in 1..MaxQueries}
SeedSet == {None, Some(2)}
Depths == {5 * FxOne, 100 * FxOne}
SteepMaxSet == {7}
SteepPeriods == {<<6 * FxOne>>, <<6 * FxOne, 10 * FxOne>>}

\* Samples of one to five sea states for the fit alone, among them one whose
\* smallest rotated component 2 is positive and whose Hs are all above
\* bin_1_limit, and one with a T of 0; every size_bin as a float and as an
\* int.
FitSamples ==
    BuoyData \cup
    { [Hs |-> <<150>>, T |-> <<700>>],
      [Hs |-> <<150, 310>>, T |-> <<700, 800>>],
      [Hs |-> <<1000, 1500, 2000, 1200>>, T |-> <<300, 400, 500, 350>>],
      [Hs |-> <<150, 220, 310, 180, 260>>, T |-> <<700, 1000, 800, 900, 600>>],
      [Hs |-> <<150, 220, 310>>, T |-> <<700, 0, 800>>] }
FitHypers == {[Hyper EXCEPT !.size_bin = [val |-> v, float |-> fl]] :
                 v \in 1..MaxSizeBin, fl \in BOOLEAN}
EigenSigns == {1, -1}
RotatedHs == {0, 150, 1000}
RotatedT == {300, 1000}

Init ==
    /\ cls \in Classes
    /\ buoy \in BuoyData
    /\ hyper = Hyper
    /\ FitOutcomes(cls, buoy, hyper) = {"ok"}
    /\ fit = FitOf(cls, buoy, hyper)
    /\ time_ss = None /\ time_r = None /\ nb_steps = None
    /\ Hs_ReturnContours = None /\ T_ReturnContours = None
    /\ Hs_SampleCA = None /\ T_SampleCA = None
    /\ Hs_SampleFSS = None /\ T_SampleFSS = None /\ Weight_SampleFSS = None
    /\ contourMean_Hs = None /\ contourMean_T = None
    /\ rng \in RngStates
    /\ ret = Outcome("__init__", "ok", << >>, << >>)
    /\ fssCall = None
    /\ calls = 0

(***************************************************************************)
(* getContours(time_ss, time_r, nb_steps) of the five classes.             *)
(***************************************************************************)
GetContours(ts, tr, n) ==
    /\ calls' = calls + 1
    /\ time_ss' = Some(ts)
    /\ time_r' = Some(tr)
    /\ nb_steps' = Some(n)
    /\ IF BroadcastLen(Len(tr), n) = 0
       THEN \* beta * np.cos(theta)
            /\ ret' = Outcome("getContours",
                              "ValueError: operands could not be broadcast together",
                              <<ts, tr, n>>, << >>)
            /\ UNCHANGED contour
       ELSE \E c \in {ContourOf(cls, fit, buoy, hyper, ts, tr, n)} :
                /\ Hs_ReturnContours' = Some(c.Hs)
                /\ T_ReturnContours' = Some(c.T)
                /\ ret' = Outcome("getContours", "ok", <<ts, tr, n>>, <<c.Hs, c.T>>)
    /\ UNCHANGED <<model, samplesCA, samplesFSS, bootMean, rng>>

(***************************************************************************)
(* getContourPoints(T_Sample).                                             *)
(***************************************************************************)
GetContourPoints(T_Sample) ==
    /\ calls' = calls + 1
    /\ IF ~IsSet(T_ReturnContours)
       THEN \* self.Hs_ReturnContours[amin:amax] of None
            /\ ret' = Outcome("getContourPoints", "TypeError: NoneType",
                              <<T_Sample>>, << >>)
            /\ UNCHANGED samplesCA
       ELSE \E r \in {ContourPoints(Val(T_ReturnContours), Val(Hs_ReturnContours),
                                      T_Sample)} :
                IF r.status # "ok"
                THEN /\ ret' = Outcome("getContourPoints", r.status, <<T_Sample>>, << >>)
                     /\ UNCHANGED samplesCA
                ELSE /\ T_SampleCA' = Some(T_Sample)
                     /\ Hs_SampleCA' = Some(r.Hs_SampleCA)
                     /\ ret' = Outcome("getContourPoints", "ok", <<T_Sample>>,
                                       <<r.Hs_SampleCA>>)
    /\ UNCHANGED <<model, contourArgs, contour, samplesFSS, bootMean, rng>>

\* The record kept of a getSamples call that stored samples: its arguments,
\* the time_ss it read, how many storing calls in a row had these arguments
\* and this time_ss, the state it left the generator in, and whether the
\* generator had moved since the storing call before it.
StoringCall(args, ts, rngLeft) ==
    LET same == IsSet(fssCall) /\ Val(fssCall).args = args /\ Val(fssCall).time_ss = ts
    IN  [args |-> args, time_ss |-> ts,
         nth |-> IF same THEN Val(fssCall).nth + 1 ELSE 1,
         rngLeft |-> rngLeft,
         drew |-> IsSet(fssCall) /\ rng # Val(fssCall).rngLeft]

\* getSamples as it would be if a one-hour sea state were assumed while
\* time_ss is not set.
GetSamplesDefaultTime(num_contour_points, contour_returns, random_seed) ==
    LET args == <<num_contour_points, contour_returns, random_seed>>
        ts == IF IsSet(time_ss) THEN Val(time_ss) ELSE 1
    IN
    /\ calls' = calls + 1
    /\ IF cls # "PCA"
       THEN /\ ret' = Outcome("getSamples",
                              "TypeError: getSamples() takes exactly 1 argument (4 given)",
                              args, << >>)
            /\ UNCHANGED <<samplesFSS, rng>>
       ELSE \E s0 \in (IF IsSet(random_seed) THEN {SeedState(Val(random_seed))}
                       ELSE RngStates) :
            \E r \in {PcaSamples(fit, ts, num_contour_points, contour_returns, s0)} :
                /\ rng' = r.rng
                /\ IF r.status # "ok"
                   THEN /\ ret' = Outcome("getSamples", r.status, args, << >>)
                        /\ UNCHANGED samplesFSS
                   ELSE /\ Hs_SampleFSS' = Some(r.Hs_Sample)
                        /\ T_SampleFSS' = Some(r.T_Sample)
                        /\ Weight_SampleFSS' = Some(r.Weight_points)
                        /\ fssCall' = Some(StoringCall(args, ts, r.rng))
                        /\ ret' = Outcome("getSamples", "ok", args,
                                          <<r.Hs_Sample, r.T_Sample, r.Weight_points>>)
    /\ UNCHANGED <<model, contourArgs, contour, samplesCA, bootMean>>

(***************************************************************************)
(* getSamples called as getSamples(num_contour_points, contour_returns,    *)
(* random_seed).  The copula classes define getSamples(self), so the call  *)
(* fails before its body runs.  A seed of None seeds the generator from    *)
(* the operating system: any state.                                        *)
(***************************************************************************)
GetSamples(num_contour_points, contour_returns, random_seed) ==
    LET args == <<num_contour_points, contour_returns, random_seed>>
    IN
    /\ calls' = calls + 1
    /\ IF cls # "PCA"
       THEN /\ ret' = Outcome("getSamples",
                              "TypeError: getSamples() takes exactly 1 argument (4 given)",
                              args, << >>)
            /\ UNCHANGED <<samplesFSS, rng>>
       ELSE IF ~IsSet(time_ss)
       THEN /\ ret' = Outcome("getSamples", "AttributeError: time_ss", args, << >>)
            /\ UNCHANGED <<samplesFSS, rng>>
       ELSE \E s0 \in (IF IsSet(random_seed) THEN {SeedState(Val(random_seed))}
                       ELSE RngStates) :
            \E r \in {PcaSamples(fit, Val(time_ss), num_contour_points,
                                  contour_returns, s0)} :
                /\ rng' = r.rng
                /\ IF r.status # "ok"
                   THEN /\ ret' = Outcome("getSamples", r.status, args, << >>)
                        /\ UNCHANGED samplesFSS
                   ELSE /\ Hs_SampleFSS' = Some(r.Hs_Sample)
                        /\ T_SampleFSS' = Some(r.T_Sample)
                        /\ Weight_SampleFSS' = Some(r.Weight_points)
                        /\ fssCall' = Some(StoringCall(args, Val(time_ss), r.rng))
                        /\ ret' = Outcome("getSamples", "ok", args,
                                          <<r.Hs_Sample, r.T_Sample, r.Weight_points>>)
    /\ UNCHANGED <<model, contourArgs, contour, samplesCA, bootMean>>

(***************************************************************************)
(* bootStrap(boot_size).  Lines 264-265 assign the resampled arrays to     *)
(* buoycopy, a deep copy of self.buoy (line 260).                          *)
(***************************************************************************)
BootStrap(boot_size) ==
    /\ calls' = calls + 1
    /\ IF ~IsSet(nb_steps)
       THEN \* np.zeros([self.nb_steps, boot_size])
            /\ ret' = Outcome("bootStrap", "AttributeError: nb_steps", <<boot_size>>, << >>)
            /\ UNCHANGED <<bootMean, rng, buoy>>
       ELSE \E r \in {BootResult(cls, buoy, hyper, Val(time_ss), Val(time_r),
                                  Val(nb_steps), boot_size, rng)} :
                /\ rng' = r.rng
                /\ buoy' = BuoyAfterResample(buoy, Resample(buoy, RandInt(rng, Len(buoy.Hs))))
                /\ IF r.status # "ok"
                   THEN /\ ret' = Outcome("bootStrap", r.status, <<boot_size>>, << >>)
                        /\ UNCHANGED bootMean
                   ELSE /\ contourMean_Hs' = Some(r.stats.contourmean_Hs)
                        /\ contourMean_T' = Some(r.stats.contourmean_T)
                        /\ ret' = Outcome("bootStrap", "ok", <<boot_size>>,
                                          <<r.stats.contourmean_Hs, r.stats.contourmean_T>>)
    /\ UNCHANGED <<cls, hyper, fit, contourArgs, contour, samplesCA, samplesFSS>>

(***************************************************************************)
(* steepness(depth, SteepMax, T_vals): computed from its arguments alone.  *)
(***************************************************************************)
Steepness(depth, SteepMax, T_vals) ==
    /\ calls' = calls + 1
    /\ ret' = Outcome("steepness", "ok", <<depth, SteepMax, T_vals>>,
                      <<SteepH(depth, SteepMax, T_vals)>>)
    /\ UNCHANGED <<model, contourArgs, contour, samplesCA, samplesFSS, bootMean, rng>>

(***************************************************************************)
(* The calls a client can make, in any order, MaxCalls of them.            *)
(***************************************************************************)
Next ==
    \/ \E ts \in SeaStateHours, tr \in TimeRSet, n \in NbStepsSet :
          calls < MaxCalls /\ GetContours(ts, tr, n)
    \/ \E q \in QuerySet : calls < MaxCalls /\ GetContourPoints(q)
    \/ \E np \in 1..MaxPts, cr \in TimeRSet, sd \in SeedSet :
          calls < MaxCalls /\ GetSamples(np, cr, sd)
    \/ \E B \in 1..MaxBoot : calls < MaxCalls /\ BootStrap(B)
    \/ \E d \in Depths, sm \in SteepMaxSet, tv \in SteepPeriods :
          calls < MaxCalls /\ Steepness(d, sm, tv)

Spec == Init /\ [][Next]_vars

(***************************************************************************)
(* Contours and contour points: no call draws from the generator.          *)
(***************************************************************************)
InitContours == Init /\ rng = 0

NextContours ==
    \/ \E tr \in TimeRSet, n \in NbStepsSet : calls < MaxCalls /\ GetContours(3, tr, n)
    \/ \E q \in QuerySet : calls < MaxCalls /\ GetContourPoints(q)

SpecContours == InitContours /\ [][NextContours]_vars

(***************************************************************************)
(* Samples: a contour of two points sets time_ss, then samples are drawn.  *)
(***************************************************************************)
NextSamples ==
    \/ \E ts \in SeaStateHours : calls < MaxCalls /\ GetContours(ts, <<100>>, 2)
    \/ \E np \in 1..MaxPts, cr \in TimeRSet, sd \in SeedSet :
          calls < MaxCalls /\ GetSamples(np, cr, sd)

SpecSamples == Init /\ [][NextSamples]_vars

(***************************************************************************)
(* Seeded samples of the PCA estimator, with other calls in between.       *)
(***************************************************************************)
InitSeeded == Init /\ cls = "PCA"

NextSeeded ==
    \/ \E ts \in SeaStateHours : calls < MaxSeededCalls /\ GetContours(ts, <<100>>, 2)
    \/ \E np \in 1..MaxPts :
          calls < MaxSeededCalls /\ GetSamples(np, <<10, 100>>, Some(2))
    \/ calls < MaxSeededCalls /\ BootStrap(1)

SpecSeeded == InitSeeded /\ [][NextSeeded]_vars

(***************************************************************************)
(* Bootstrap: a contour is computed, then replicates are drawn.            *)
(***************************************************************************)
NextBoot ==
    \/ \E tr \in TimeRSet, n \in 2..3 : calls < MaxCalls /\ GetContours(3, tr, n)
    \/ \E B \in 1..MaxBoot : calls < MaxCalls /\ BootStrap(B)

SpecBoot == Init /\ [][NextBoot]_vars

(***************************************************************************)
(* The life of one estimator: the five operations in any order, on         *)
(* arguments among which some make getContours fail.                       *)
(***************************************************************************)
NextLifecycle ==
    \/ \E ts \in SeaStateHours, tr \in TimeRSet, n \in 2..3 :
          calls < MaxCalls /\ GetContours(ts, tr, n)
    \/ \E q \in {<<6 * FxOne>>, <<25 * FxOne>>} : calls < MaxCalls /\ GetContourPoints(q)
    \/ \E np \in 1..MaxPts, sd \in SeedSet :
          calls < MaxCalls /\ GetSamples(np, <<10, 100>>, sd)
    \/ calls < MaxCalls /\ BootStrap(1)
    \/ \E d \in Depths, tv \in SteepPeriods : calls < MaxCalls /\ Steepness(d, 7, tv)

SpecLifecycle == Init /\ [][NextLifecycle]_vars

(***************************************************************************)
(* The fit on its own: the constructor of one of the five classes on a     *)
(* sample, the decomposition of the PCA class returning its axes in either *)
(* direction, then points rotated with the fitted coeff and shift and      *)
(* rotated back.                                                           *)
(***************************************************************************)
NoFit == [method |-> "none"]
Fitted == "coeff" \in DOMAIN fit

InitFit ==
    /\ cls \in Classes
    /\ buoy \in FitSamples
    /\ hyper \in FitHypers
    /\ fit = NoFit
    /\ time_ss = None /\ time_r = None /\ nb_steps = None
    /\ Hs_ReturnContours = None /\ T_ReturnContours = None
    /\ Hs_SampleCA = None /\ T_SampleCA = None
    /\ Hs_SampleFSS = None /\ T_SampleFSS = None /\ Weight_SampleFSS = None
    /\ contourMean_Hs = None /\ contourMean_T = None
    /\ rng = 0
    /\ ret = Outcome("Buoy", "ok", << >>, << >>)
    /\ fssCall = None
    /\ calls = 0

\* PCA.__init__ up to line 382; s1 and s2 are the directions in which
\* pca.components_ holds the two axes.
PcaInit(s1, s2) ==
    /\ ret.op = "Buoy"
    /\ cls = "PCA"
    /\ calls' = calls + 1
    /\ \E st \in PcaFitOutcomes(buoy, hyper.size_bin) :
          IF st = "ok"
          THEN \E comp \in {PcaComponentsSigned(buoy, s1, s2)} :
                  /\ fit' = PcaParams(buoy, hyper.size_bin, comp)
                  /\ ret' = Outcome("__init__", "ok", <<hyper.size_bin>>, <<comp>>)
          ELSE /\ ret' = Outcome("__init__", st, <<hyper.size_bin>>, << >>)
               /\ UNCHANGED fit
    /\ UNCHANGED <<cls, buoy, hyper, contourArgs, contour, samplesCA, samplesFSS,
                   bootMean, rng>>

\* __init__ of the four copula classes: the fit of __getCopulaParams.
CopulaInit ==
    /\ ret.op = "Buoy"
    /\ cls # "PCA"
    /\ calls' = calls + 1
    /\ \E st \in FitOutcomes(cls, buoy, hyper) :
          \E args \in {<<hyper.n_size, hyper.bin_1_limit, hyper.bin_step>>} :
             IF st = "ok"
             THEN /\ fit' = FitOf(cls, buoy, hyper)
                  /\ ret' = Outcome("__init__", "ok", args, << >>)
             ELSE IF st = NaN
             THEN /\ fit' = NanCopulaParams(buoy)
                  /\ ret' = Outcome("__init__", "ok", args, << >>)
             ELSE /\ ret' = Outcome("__init__", st, args, << >>)
                  /\ UNCHANGED fit
    /\ UNCHANGED <<cls, buoy, hyper, contourArgs, contour, samplesCA, samplesFSS,
                   bootMean, rng>>

\* The point (hs, t) rotated as lines 390-397 rotate the sample, then
\* handed to __princomp_inv with the same coeff and shift.
RotateAndInvert(hs, t) ==
    /\ Fitted
    /\ calls' = calls + 1
    /\ \E c \in {Rotate(hs, t, fit.coeff)} :
          ret' = Outcome("__princomp_inv", "ok", <<hs, t>>,
                         princomp_inv(c[1], c[2] + fit.shift, fit.coeff, fit.shift))
    /\ UNCHANGED <<model, contourArgs, contour, samplesCA, samplesFSS, bootMean, rng>>

NextFit ==
    \/ \E s1 \in EigenSigns, s2 \in EigenSigns : calls < MaxCalls /\ PcaInit(s1, s2)
    \/ calls < MaxCalls /\ CopulaInit
    \/ \E hs \in RotatedHs, t \in RotatedT : calls < MaxCalls /\ RotateAndInvert(hs, t)

SpecFit == InitFit /\ [][NextFit]_vars

(***************************************************************************)
(* EA.__getCopulaParams statement by statement: the sort, the loop that    *)
(* grows ind by one upper edge at a time, then the fits of the bins.  ret  *)
(* holds the locals of the call while it runs.                             *)
(***************************************************************************)
BinSamples ==
    BuoyData \cup
    { [Hs |-> <<240, 50, 330, 120, 260, 180>>, T |-> <<800, 500, 900, 600, 700, 650>>],
      [Hs |-> <<300, 350, 420>>, T |-> <<700, 800, 900>>],
      [Hs |-> <<150, 220, 310>>, T |-> <<700, 0, 800>>] }
BinHypers ==
    {[Hyper EXCEPT !.n_size = ns, !.bin_1_limit = lim, !.bin_step = stp] :
        ns \in 1..2, lim \in {FxOne, (5 * FxOne) \div 2}, stp \in {FxOne \div 2, FxOne}}
    \cup {[Hyper EXCEPT !.n_size = 0]}

\* np.mean(x[range(lo, hi)]), NaN over an empty range.
MeanRange(x, r) == IF EmptyRange(r) THEN NaN ELSE Mean(Slice(x, r[1], r[2]))

\* stats.norm.fit(np.log(T[range(lo, hi)])), NaN over an empty range or a
\* T that is not positive.
NormFitRange(T, r) ==
    IF EmptyRange(r) \/ \E i \in (r[1] + 1)..r[2] : T[i] <= 0 THEN <<NaN, NaN>>
    ELSE NormFit(Arr([i \in 1..(r[2] - r[1]) |-> Ln(T[r[1] + i])]))

\* hss, lines 331-341: the mean of Hs over the Hs range of each bin.
Hss(Hs, bins) == Arr([k \in 1..Len(bins) |-> MeanRange(Hs, bins[k].Hs)])

\* para_dist_cond, lines 330-340: the fit of ln(T) over the lnT range of
\* each bin.
ParaDistCond(T, bins) == Arr([k \in 1..Len(bins) |-> NormFitRange(T, bins[k].lnT)])

InitBinning ==
    /\ cls \in Classes \ {"PCA"}
    /\ buoy \in BinSamples
    /\ hyper \in BinHypers
    /\ fit = NoFit
    /\ time_ss = None /\ time_r = None /\ nb_steps = None
    /\ Hs_ReturnContours = None /\ T_ReturnContours = None
    /\ Hs_SampleCA = None /\ T_SampleCA = None
    /\ Hs_SampleFSS = None /\ T_SampleFSS = None /\ Weight_SampleFSS = None
    /\ contourMean_Hs = None /\ contourMean_T = None
    /\ rng = 0
    /\ ret = Outcome("Buoy", "ok", << >>, << >>)
    /\ fssCall = None
    /\ calls = 0

\* Lines 307-318: Hs and T sorted by Hs, and the first entry of ind.
SortAndCount ==
    /\ ret.op = "Buoy"
    /\ calls' = calls + 1
    /\ \E idx \in {ArgSort(buoy.Hs)} :
          ret' = Outcome("__getCopulaParams", "binning",
                         <<Take(buoy.Hs, idx), Take(buoy.T, idx)>>,
                         <<<<CountLeq(buoy.Hs, hyper.bin_1_limit)>>>>)
    /\ UNCHANGED <<model, contourArgs, contour, samplesCA, samplesFSS, bootMean, rng>>

\* Lines 319-323: one pass of the loop; i of the code is Len(ind) here.
BinLoop ==
    /\ ret.op = "__getCopulaParams"
    /\ ret.outcome = "binning"
    /\ \E ind \in {ret.val[1]} :
          IF Len(ind) >= BinLoopEnd
          THEN ret' = [ret EXCEPT !.outcome = "binned"]
          ELSE \E nxt \in {CountLeq(ret.args[1],
                                     hyper.bin_1_limit + hyper.bin_step * Len(ind))} :
                  ret' = [ret EXCEPT !.val = <<Append(ind, nxt)>>,
                                     !.outcome = IF nxt - ind[Len(ind)] < hyper.n_size
                                                 THEN "binned" ELSE "binning"]
    /\ UNCHANGED <<model, contourArgs, contour, samplesCA, samplesFSS, bootMean, rng, calls>>

\* Lines 326-341: the ranges of the bins, the fit of ln(T) and the mean of
\* Hs in each.
BinFits ==
    /\ ret.op = "__getCopulaParams"
    /\ ret.outcome = "binned"
    /\ \E bins \in {CopulaBins(ret.val[1], Len(ret.args[1]))} :
          ret' = [ret EXCEPT !.outcome = "fitted",
                             !.val = <<ret.val[1], bins, Hss(ret.args[1], bins),
                                       ParaDistCond(ret.args[2], bins)>>]
    /\ UNCHANGED <<model, contourArgs, contour, samplesCA, samplesFSS, bootMean, rng, calls>>

\* Lines 343-354 and the assignment in __init__: the two regressions on
\* hss, and the four parameters stored on the estimator.
BinRegress ==
    /\ ret.op = "__getCopulaParams"
    /\ ret.outcome = "fitted"
    /\ \E st \in CopulaBinOutcomes(buoy.T, ret.val[2]) :
          \E args \in {<<hyper.n_size, hyper.bin_1_limit, hyper.bin_step>>} :
             IF st = "ok"
             THEN /\ fit' = FitOf(cls, buoy, hyper)
                  /\ ret' = Outcome("__init__", "ok", args, << >>)
             ELSE IF st = NaN
             THEN /\ fit' = NanCopulaParams(buoy)
                  /\ ret' = Outcome("__init__", "ok", args, << >>)
             ELSE /\ ret' = Outcome("__init__", st, args, << >>)
                  /\ UNCHANGED fit
    /\ UNCHANGED <<cls, buoy, hyper, contourArgs, contour, samplesCA, samplesFSS,
                   bootMean, rng, calls>>

NextBinning ==
    \/ SortAndCount
    \/ BinLoop
    \/ BinFits
    \/ BinRegress

SpecBinning == InitBinning /\ [][NextBinning]_vars

(***************************************************************************)
(* PCA.__sigma_fits statement by statement.  The parameters move on a      *)
(* lattice of step SigStep; 10**-5 is below the resolution of the fixed    *)
(* point, so that a change is above epsilon exactly when it is not 0.      *)
(***************************************************************************)
SigStep == FxOne \div 10
Epsilon == 0
MaxOuter == 5
FminMaxIter == 30

\* Comp1_mean (increasing, the bins being cut along the sorted component
\* 1) and sigma_vals (standard deviations, never negative).
SigmaInputs ==
    {<<<<FxOne, 2 * FxOne>>, <<y1, y2>>>> : y1 \in {0, 10, 30, 50}, y2 \in {0, 10, 30, 50}}
    \cup {<<<<FxOne, 2 * FxOne, 3 * FxOne>>, <<y1, y2, y3>>>> :
              y1 \in {0, 20, 40}, y2 \in {0, 20}, y3 \in {0, 20, 60}}

\* -sig_p[2] + (sig_p[1]**2) / (4 * sig_p[0]) <= 0; the quotient by 0.0
\* is inf or nan, neither of which is <= 0.
MinimumFeasible(sig_p) ==
    LET a == sig_p[1]
        b == sig_p[2]
        c == sig_p[3]
    IN  IF a = 0 THEN FALSE
        ELSE IF a > 0 THEN b * b <= 4 * a * c
        ELSE b * b >= 4 * a * c

\* __betafcn: (Beta1, Beta2)
betafcn(sig_p, rho) ==
    << IF -sig_p[3] <= 0 THEN 0 ELSE rho,
       IF MinimumFeasible(sig_p) THEN 0 ELSE rho >>

\* __objfun: np.sum((self.__sigma_fcn(sig_p, x) - y_actual)**2)
objfun(sig_p, x, y_actual) ==
    SumSeq(Arr([i \in 1..Len(x) |->
        (sigma_fcn(sig_p, x[i]) - y_actual[i]) * (sigma_fcn(sig_p, x[i]) - y_actual[i])]))

\* __objfun_penalty, for sig_p[0] # 0.
objfun_penalty(sig_p, x, y_actual, Beta1, Beta2) ==
    LET g == -sig_p[3] + (sig_p[2] * sig_p[2]) \div (4 * sig_p[1])
    IN  objfun(sig_p, x, y_actual) + Beta1 * sig_p[3] * sig_p[3] + Beta2 * g * g

\* The lattice points next to p: one step along one parameter, sig_p[0]
\* stepping over 0, where the penalty is inf or nan.
Neighbours(p) ==
    LET up == IF p[1] + SigStep = 0 THEN p[1] + 2 * SigStep ELSE p[1] + SigStep
        dn == IF p[1] - SigStep = 0 THEN p[1] - 2 * SigStep ELSE p[1] - SigStep
    IN  << <<up, p[2], p[3]>>, <<dn, p[2], p[3]>>,
           <<p[1], p[2] + SigStep, p[3]>>, <<p[1], p[2] - SigStep, p[3]>>,
           <<p[1], p[2], p[3] + SigStep>>, <<p[1], p[2], p[3] - SigStep>> >>

\* optim.fmin(func=self.__objfun_penalty, x0, args, disp=False): a descent
\* without derivatives from x0, which ends at a point no neighbour improves
\* or, silently, after maxiter moves.
RECURSIVE fmin(_, _, _, _, _, _)
fmin(x0, x, y_actual, Beta1, Beta2, left) ==
    LET nb == Neighbours(x0)
        val == Arr([j \in 1..6 |-> objfun_penalty(nb[j], x, y_actual, Beta1, Beta2)])
        best == ArgMin(val)
    IN  IF left = 0 \/ val[best] >= objfun_penalty(x0, x, y_actual, Beta1, Beta2)
        THEN x0
        ELSE fmin(nb[best], x, y_actual, Beta1, Beta2, left - 1)

\* np.amin(abs(sig_1 - sig_0))
AminAbsDiff(sig_1, sig_0) ==
    MinOf(Arr([i \in 1..3 |-> Abs(sig_1[i] - sig_0[i])]))

\* The test of the while at lines 901-903.
KeepIterating(sig_0, sig_1, x, y_actual) ==
    /\ AminAbsDiff(sig_1, sig_0) > Epsilon
    /\ Abs(objfun(sig_1, x, y_actual) - objfun(sig_0, x, y_actual)) > Epsilon

InitSigma ==
    /\ cls = "PCA"
    /\ buoy \in BuoyData
    /\ hyper = Hyper
    /\ fit = NoFit
    /\ time_ss = None /\ time_r = None /\ nb_steps = None
    /\ Hs_ReturnContours = None /\ T_ReturnContours = None
    /\ Hs_SampleCA = None /\ T_SampleCA = None
    /\ Hs_SampleFSS = None /\ T_SampleFSS = None /\ Weight_SampleFSS = None
    /\ contourMean_Hs = None /\ contourMean_T = None
    /\ rng = 0
    /\ \E inp \in SigmaInputs : ret = Outcome("__generateParams", "ok", inp, << >>)
    /\ fssCall = None
    /\ calls = 0

\* Lines 887-897: the initial guess, rho, the penalties and the first
\* minimization.  fmins records, for each call of optim.fmin so far, the rho
\* its penalties were computed with, its x0 and its result.
SigmaFitsStart ==
    /\ ret.op = "__generateParams"
    /\ \E sig_0 \in {<<SigStep, SigStep, SigStep>>} :
       \E Beta \in {betafcn(sig_0, 1)} :
       \E sig_1 \in {fmin(sig_0, ret.args[1], ret.args[2], Beta[1], Beta[2], FminMaxIter)} :
          ret' = Outcome("__sigma_fits", "while", ret.args,
                         [sig_0 |-> sig_0, sig_1 |-> sig_1, rho |-> 1, Beta |-> Beta,
                          fmins |-> <<[rho |-> 1, x0 |-> sig_0, xopt |-> sig_1]>>])
    /\ UNCHANGED <<model, contourArgs, contour, samplesCA, samplesFSS, bootMean, rng, calls>>

\* Lines 901-912: the test of the while, then either one pass of its body
\* or the return of sig_1.
SigmaFitsWhile ==
    /\ ret.op = "__sigma_fits"
    /\ ret.outcome = "while"
    /\ Len(ret.val.fmins) <= MaxOuter
    /\ IF KeepIterating(ret.val.sig_0, ret.val.sig_1, ret.args[1], ret.args[2])
       THEN \E sig_0 \in {ret.val.sig_1} :
            \E Beta \in {betafcn(sig_0, ret.val.rho)} :
            \E sig_1 \in {fmin(sig_0, ret.args[1], ret.args[2], Beta[1], Beta[2], FminMaxIter)} :
               ret' = [ret EXCEPT !.val =
                          [sig_0 |-> sig_0, sig_1 |-> sig_1, rho |-> 10 * ret.val.rho,
                           Beta |-> Beta,
                           fmins |-> Append(ret.val.fmins,
                                            [rho |-> ret.val.rho, x0 |-> sig_0, xopt |-> sig_1])]]
       ELSE ret' = [ret EXCEPT !.outcome = "ok"]
    /\ UNCHANGED <<model, contourArgs, contour, samplesCA, samplesFSS, bootMean, rng, calls>>

NextSigma ==
    \/ SigmaFitsStart
    \/ SigmaFitsWhile

SpecSigma == InitSigma /\ [][NextSigma]_vars

(***************************************************************************)
(* GumbelCopula.getContours angle by angle: the circle, then one pass of   *)
(* the loop over k at a time, then the contour stored.  ret holds the      *)
(* locals of the call while it runs.                                       *)
(***************************************************************************)
GumbelSteps == {4, 5, 6}
GumbelNdata == {3, 5}

InitGumbel ==
    /\ cls = "GumbelCopula"
    /\ buoy \in BuoyData
    /\ hyper \in {[Hyper EXCEPT !.Ndata = nd] : nd \in GumbelNdata}
    /\ FitOutcomes(cls, buoy, hyper) = {"ok"}
    /\ fit = FitOf(cls, buoy, hyper)
    /\ time_ss = None /\ time_r = None /\ nb_steps = None
    /\ Hs_ReturnContours = None /\ T_ReturnContours = None
    /\ Hs_SampleCA = None /\ T_SampleCA = None
    /\ Hs_SampleFSS = None /\ T_SampleFSS = None /\ Weight_SampleFSS = None
    /\ contourMean_Hs = None /\ contourMean_T = None
    /\ rng = 0
    /\ ret = Outcome("__init__", "ok", << >>, << >>)
    /\ fssCall = None
    /\ calls = 0

\* Lines 1380-1406: the arguments stored, the circle, comp_1 and the
\* targets fi_u2; comp_2_Gumb holds the values of the angles done so far.
GumbelBegin(ts, tr, n) ==
    /\ ret.op = "__init__"
    /\ calls' = calls + 1
    /\ time_ss' = Some(ts)
    /\ time_r' = Some(tr)
    /\ nb_steps' = Some(n)
    /\ \E circ \in {Circle(ts, tr, n)} :
          ret' = Outcome("getContours", "for k", <<ts, tr, n>>,
                    [U1 |-> Arr([k \in 1..n |-> circ[k].U1]),
                     fi_u2 |-> Arr([k \in 1..n |-> NormCdf(circ[k].U2)]),
                     comp_1 |-> Arr([k \in 1..n |-> ExponWeibPpf(circ[k].U1, fit.para_dist_1)]),
                     comp_2_Gumb |-> << >>])
    /\ UNCHANGED <<model, contour, samplesCA, samplesFSS, bootMean, rng>>

\* Lines 1407-1424: one pass of the loop over k.
GumbelAngle ==
    /\ ret.op = "getContours"
    /\ ret.outcome = "for k"
    /\ Len(ret.val.comp_2_Gumb) < ret.args[3]
    /\ \E k \in {Len(ret.val.comp_2_Gumb) + 1} :
       \E cdf \in {GumbelTable(fit, buoy, hyper.Ndata, ret.val.U1[k])} :
          ret' = [ret EXCEPT !.val.comp_2_Gumb =
                     Append(@, GumbelSearch(ret.val.fi_u2[k], GridX2(buoy, hyper.Ndata),
                                            cdf, 1, 0))]
    /\ UNCHANGED <<model, contourArgs, contour, samplesCA, samplesFSS, bootMean, rng, calls>>

\* Lines 1426-1431: the contour stored and returned.
GumbelEnd ==
    /\ ret.op = "getContours"
    /\ ret.outcome = "for k"
    /\ Len(ret.val.comp_2_Gumb) = ret.args[3]
    /\ Hs_ReturnContours' = Some(ret.val.comp_1)
    /\ T_ReturnContours' = Some(ret.val.comp_2_Gumb)
    /\ ret' = Outcome("getContours", "ok", ret.args, <<ret.val.comp_1, ret.val.comp_2_Gumb>>)
    /\ UNCHANGED <<model, contourArgs, samplesCA, samplesFSS, bootMean, rng, calls>>

NextGumbel ==
    \/ \E ts \in SeaStateHours, r \in ReturnPeriods, n \in GumbelSteps : GumbelBegin(ts, <<r>>, n)
    \/ GumbelAngle
    \/ GumbelEnd

SpecGumbel == InitGumbel /\ [][NextGumbel]_vars

(***************************************************************************)
(* PCA.getSamples interval by interval: the lines and the Hs = 0 line,     *)
(* then one pass of the loop of __generateData over the contour intervals  *)
(* at a time, then the samples transformed and stored.  ret holds the      *)
(* locals of the call while it runs.                                       *)
(***************************************************************************)
\* num_contour_points: one and two points, and a number above 4 * pi / 0.1.
GenPts == {1, 2, 121}

\* contour_returns, in days, with the beta_lines and contour_probs that
\* lines 602-611 compute from them for time_ss = ts.  The last one is
\* contour_returns = [0.0191], a week, at time_ss = 3:
\* p = 3 / (8760 * 0.0191) = 0.0179 and beta = 2.10, a step that the table
\* of NormPpfUpper does not have.
GenLines(ts) ==
    {[returns |-> Arr([i \in 1..Len(cr) |-> 365 * cr[i]]),
      beta_lines |-> BetaLines(ts, cr), contour_probs |-> ContourProbs(ts, cr)] :
        cr \in {<<10, 100>>, <<100>>}}
    \cup (IF ts = 3
          THEN {[returns |-> <<7>>, beta_lines |-> <<0, 210>>,
                 contour_probs |-> <<PDen, 15680>>]}
          ELSE {})

GenRunning == ret.op = "getSamples" /\ ret.outcome = "for i"

\* Lines 560-651: the Hs = 0 line in the normal space, the lines, the seed
\* and the arrays of __generateData, empty.
SamplesBegin(num_contour_points, lines, random_seed) ==
    /\ cls = "PCA"
    /\ IsSet(time_ss)
    /\ ~GenRunning
    /\ calls' = calls + 1
    /\ \E s0 \in (IF IsSet(random_seed) THEN {SeedState(Val(random_seed))} ELSE RngStates) :
          rng' = s0
    /\ ret' = Outcome("getSamples", "for i",
                      <<num_contour_points, lines.returns, random_seed>>,
                      [beta_lines |-> lines.beta_lines,
                       contour_probs |-> lines.contour_probs,
                       zeroline |-> SamplingZeroLine(fit, lines.beta_lines),
                       Alpha_bounds |-> << >>, Alpha |-> << >>,
                       Sample_alpha |-> << >>, Sample_beta |-> << >>,
                       Weight_points |-> << >>])
    /\ UNCHANGED <<model, contourArgs, contour, samplesCA, samplesFSS, bootMean>>

\* Lines 653-691: one pass of the loop over the contour intervals.
SamplesInterval ==
    /\ GenRunning
    /\ Len(ret.val.Alpha_bounds) < Len(ret.val.beta_lines) - 1
    /\ \E i \in {Len(ret.val.Alpha_bounds) + 1}, np \in {ret.args[1]} :
       \E ab \in {AlphaBounds(ret.val.zeroline, ret.val.beta_lines[i + 1])} :
          IF ab.status # "ok"
          THEN \* np.amin(np.where(r < -0.01)) of no position
               /\ ret' = Outcome("getSamples",
                      "ValueError: zero-size array to reduction operation minimum which has no identity",
                      ret.args, << >>)
               /\ UNCHANGED rng
          ELSE IF ArangeLen(ab, np) # np + 1
          THEN \* Alpha[i, :] = np.arange(...)
               /\ ret' = Outcome("getSamples",
                      "ValueError: could not broadcast input array", ret.args, << >>)
               /\ UNCHANGED rng
          ELSE \E iv \in {Interval(ret.val.zeroline, ret.val.beta_lines,
                                     ret.val.contour_probs, np, i)} :
                  /\ ret' = [ret EXCEPT
                         !.val.Alpha_bounds = Append(@, [lo |-> ab.lo, hi |-> ab.hi]),
                         !.val.Alpha = Append(@, iv.Alpha),
                         !.val.Sample_beta = @ \o Arr([j \in 1..np |->
                             ret.val.beta_lines[i]
                             + RandomSample(rng, 2 * j - 1,
                                   ret.val.beta_lines[i + 1] - ret.val.beta_lines[i])]),
                         !.val.Sample_alpha = @ \o Arr([j \in 1..np |->
                             iv.Alpha[j]
                             + RandomSample(rng, 2 * j, iv.Alpha[j + 1] - iv.Alpha[j])]),
                         !.val.Weight_points = @ \o Arr([j \in 1..np |-> iv.Weight])]
                  /\ rng' = RngAfter(rng, 2 * np)
    /\ UNCHANGED <<model, contourArgs, contour, samplesCA, samplesFSS, bootMean, calls>>

\* Lines 631-639: the samples transformed to (Hs, T) and stored.
SamplesEnd ==
    /\ GenRunning
    /\ Len(ret.val.Alpha_bounds) = Len(ret.val.beta_lines) - 1
    /\ \E r \in {TransformSamples(fit, [status |-> "ok", rng |-> rng,
                                         Sample_alpha |-> ret.val.Sample_alpha,
                                         Sample_beta |-> ret.val.Sample_beta,
                                         Weight_points |-> ret.val.Weight_points])} :
          /\ Hs_SampleFSS' = Some(r.Hs_Sample)
          /\ T_SampleFSS' = Some(r.T_Sample)
          /\ Weight_SampleFSS' = Some(r.Weight_points)
          /\ fssCall' = Some(StoringCall(ret.args, Val(time_ss), rng))
          /\ ret' = Outcome("getSamples", "ok", ret.args,
                            <<r.Hs_Sample, r.T_Sample, r.Weight_points>>)
    /\ UNCHANGED <<model, contourArgs, contour, samplesCA, bootMean, rng, calls>>

NextGenerate ==
    \/ \E ts \in SeaStateHours : calls < MaxCalls /\ ~GenRunning /\ GetContours(ts, <<100>>, 2)
    \/ \E np \in GenPts, sd \in SeedSet :
          calls < MaxCalls /\ IsSet(time_ss)
          /\ \E lines \in GenLines(Val(time_ss)) : SamplesBegin(np, lines, sd)
    \/ SamplesInterval
    \/ SamplesEnd

SpecGenerate == InitSeeded /\ [][NextGenerate]_vars

(***************************************************************************)
(* Buoy: the data loaded by loadFromText and fetchFromWeb.  In this        *)
(* section buoy holds every attribute of the Buoy object: swdList,         *)
(* freqList and dateList, one array per file, and Hs, T and dateNum.  A    *)
(* file is its header, the names of the time columns and the frequencies   *)
(* in 1/100 Hz, and its lines, the time values followed by the spectral    *)
(* densities in 1/FxOne m^2/Hz.  A statistic is a float that may be NaN:   *)
(* [nan, v].                                                               *)
(***************************************************************************)
MaxLoads == 3        \* load calls made on one Buoy

Float(x) == [nan |-> FALSE, v |-> x]
FloatNaN == [nan |-> TRUE, v |-> 0]
isnan(x) == x.nan

Missing == 999 * FxOne

FileA == [year |-> 1996,
          header |-> [time |-> <<"YY", "MM", "DD", "hh">>, freq |-> <<10, 20, 30>>],
          lines |-> << <<96, 1, 1, 0, 100, 200, 100>>,
                       <<96, 1, 1, 1, 0, Missing, 0>>,
                       <<96, 3, 1, 2, 0, 0, 0>> >>]
FileB == [year |-> 2005,
          header |-> [time |-> <<"YYYY", "MM", "DD", "hh", "mm">>, freq |-> <<10, 20, 30>>],
          lines |-> << <<2005, 1, 1, 0, 30, 50, 100, 50>>,
                       <<2005, 2, 1, 1, 30, 300, 100, 0>> >>]
FileNegative == [year |-> 2004,
                 header |-> [time |-> <<"YYYY", "MM", "DD", "hh">>, freq |-> <<10, 20, 30>>],
                 lines |-> << <<2004, 12, 31, 23, -100, -100, -100>>,
                              <<2004, 2, 29, 0, 40, 80, 120>> >> ]
FileEmpty == [year |-> 1997, header |-> [time |-> << >>, freq |-> << >>], lines |-> << >>]
FileHeaderOnly == [year |-> 1998,
                   header |-> [time |-> <<"YY", "MM", "DD", "hh">>, freq |-> <<10, 20, 30>>],
                   lines |-> << >>]
FileNoMinutes == [year |-> 2005,
                  header |-> [time |-> <<"YYYY", "MM", "DD", "hh">>, freq |-> <<10, 20, 30>>],
                  lines |-> << <<96, 1, 1, 0, 100, 200, 100>>,
                               <<2005, 1, 1, 0, 50, 100, 50>>,
                               <<97, 1, 1, 0, 50, 100, 50>> >>]

\* What glob finds in dirPath, None where os.walk finds no directory.
Directories == {Some(<<FileA>>), Some(<<FileA, FileB>>), Some(<<FileB, FileNegative>>),
                Some(<<FileHeaderOnly>>), Some(<< >>), Some(<<FileA, FileEmpty>>),
                Some(<<FileNoMinutes>>), None}
\* What the station page lists: the files linked under the header
\* "Spectral wave density data: ", None where the page has no such header.
Sites == {Some(<<FileA>>), Some(<<FileB, FileA>>), Some(<<FileA, FileHeaderOnly>>),
          Some(<< >>), None}

\* The lines kept: those whose second spectral value is below 999.
RECURSIVE KeptLines(_, _)
KeptLines(lines, numTimeVals) ==
    IF lines = << >> THEN << >>
    ELSE (IF Head(lines)[numTimeVals + 2] < Missing THEN <<Head(lines)>> ELSE << >>)
            \o KeptLines(Tail(lines), numTimeVals)

\* The arrays of one file: dateValues, numLines rows of numTimeVals
\* columns, and spectralValues, numLines rows of the other columns.
ParsedFile(file, numTimeVals) ==
    LET kept == KeptLines(file.lines, numTimeVals)
    IN  [frequency |-> file.header.freq,
         dateValues |-> Arr([i \in 1..Len(kept) |-> SubSeq(kept[i], 1, numTimeVals)]),
         spectralValues |-> Arr([i \in 1..Len(kept) |->
                                    SubSeq(kept[i], numTimeVals + 1, Len(kept[i]))])]

\* np.trapz(y, x), doubled.
Trapz2(y, x) == SumSeq(Arr([i \in 1..(Len(x) - 1) |-> (x[i + 1] - x[i]) * (y[i] + y[i + 1])]))

\* _getStats for one line: Hm0 = 4.004 * m0 ** 0.5 and T = m_1 / m0, in
\* 1/FxOne m and s; m0 ** 0.5 is NaN for a negative m0 and 0 / 0 is NaN.
StatsOfLine(line, freqArr) ==
    LET m0 == Trapz2(line, freqArr)
        m_1 == Trapz2(Arr([i \in 1..Len(line) |-> (100 * FxOne * line[i]) \div freqArr[i]]),
                      freqArr)
    IN  [Hm0 |-> IF m0 < 0 THEN FloatNaN ELSE Float(ISqrt((8016 * m0) \div 1000)),
         T |-> IF m0 = 0 THEN FloatNaN ELSE Float(m_1 \div m0)]

\* date.toordinal(datetime(y, m, d, ...)).
IsLeap(y) == (y % 4 = 0 /\ y % 100 # 0) \/ y % 400 = 0
DaysInMonth(y, m) == IF m = 2 THEN (IF IsLeap(y) THEN 29 ELSE 28)
                     ELSE IF m \in {4, 6, 9, 11} THEN 30 ELSE 31
ToOrdinal(y, m, d) ==
    365 * (y - 1) + (y - 1) \div 4 - (y - 1) \div 100 + (y - 1) \div 400
        + SumSeq(Arr([k \in 1..(m - 1) |-> DaysInMonth(y, k)])) + d

\* _getDateNums writes the four-digit year into the row it reads.
FullYear(times) == IF times[1] < 1900 THEN [times EXCEPT ![1] = 1900 + times[1]] ELSE times
\* datetime(..., times[4]) of a row without a minutes column.
NoMinutes(times) == FullYear(times)[1] >= 2005 /\ Len(times) < 5

\* The rows of dateList in the order _prepData reads them, and the first
\* at which _getDateNums raises, 0 if there is none.
RowsOf(dateList) ==
    UNION {{<<ii, k>> : k \in 1..Len(dateList[ii])} : ii \in 1..Len(dateList)}
Before(p, q) == p[1] < q[1] \/ (p[1] = q[1] /\ p[2] <= q[2])
FailingRows(dateList) == {p \in RowsOf(dateList) : NoMinutes(dateList[p[1]][p[2]])}
FirstFailing(dateList) ==
    CHOOSE p \in FailingRows(dateList) : \A q \in FailingRows(dateList) : Before(p, q)

RECURSIVE Flatten(_)
Flatten(ss) == IF ss = << >> THEN << >> ELSE Head(ss) \o Flatten(Tail(ss))

\* x[mask]
RECURSIVE Masked(_, _)
Masked(x, mask) ==
    IF x = << >> THEN << >>
    ELSE (IF Head(mask) THEN <<Head(x)>> ELSE << >>) \o Masked(Tail(x), Tail(mask))

\* The rows are kept whose Hs and T are both numbers.
Nanrem(Hs, T) == Arr([i \in 1..Len(Hs) |-> ~(isnan(T[i]) \/ isnan(Hs[i]))])

\* _prepData on the lists b holds: the Buoy it leaves and how it ends.
PrepData(b) ==
    LET n == Len(b.swdList)
        stats == Flatten(Arr([ii \in 1..n |->
                    Arr([k \in 1..Len(b.swdList[ii]) |->
                            StatsOfLine(b.swdList[ii][k], b.freqList[ii])])]))
        Hs == Arr([i \in 1..Len(stats) |-> stats[i].Hm0])
        T == Arr([i \in 1..Len(stats) |-> stats[i].T])
        read(p) == FailingRows(b.dateList) = {} \/ Before(p, FirstFailing(b.dateList))
        dates == Arr([ii \in 1..n |-> Arr([k \in 1..Len(b.dateList[ii]) |->
                        IF read(<<ii, k>>) THEN FullYear(b.dateList[ii][k])
                        ELSE b.dateList[ii][k]])])
        rows == Flatten(dates)
        dateNum == Arr([i \in 1..Len(rows) |-> ToOrdinal(rows[i][1], rows[i][2], rows[i][3])])
        mask == Nanrem(Hs, T)
    IN  IF FailingRows(b.dateList) # {}
        THEN [status |-> "IndexError: index 4 is out of bounds for axis 0 with size 4",
              buoy |-> [b EXCEPT !.dateList = dates]]
        ELSE [status |-> "ok",
              buoy |-> [b EXCEPT !.dateList = dates,
                                 !.Hs = Masked(Hs, mask),
                                 !.T = Masked(T, mask),
                                 !.dateNum = Masked(dateNum, mask)]]

\* The number of time columns: loadFromText reads it off the header,
\* fetchFromWeb off the year in the link.
NumTimeVals(file, web) ==
    IF web THEN (IF file.year > 2004 THEN 5 ELSE 4)
    ELSE (IF Len(file.header.time) = 5 THEN 5 ELSE 4)

\* The lists after the files were read one by one: each file appends its
\* three arrays, and the first file that cannot be read ends the loop.
RECURSIVE ReadFiles(_, _, _)
ReadFiles(b, files, web) ==
    IF files = << >> THEN [status |-> "ok", buoy |-> b]
    ELSE LET file == Head(files)
             p == ParsedFile(file, NumTimeVals(file, web))
         IN  IF ~web /\ Len(file.header.time) + Len(file.header.freq) < 5
             THEN \* frequency[4] of a header with fewer than five words
                  [status |-> "IndexError: list index out of range", buoy |-> b]
             ELSE IF web /\ file.lines = << >>
             THEN \* np.reshape to (0, numCols - numDates) with numCols = 0
                  [status |-> "ValueError: negative dimensions not allowed", buoy |-> b]
             ELSE ReadFiles([b EXCEPT !.swdList = Append(@, p.spectralValues),
                                      !.freqList = Append(@, p.frequency),
                                      !.dateList = Append(@, p.dateValues)],
                            Tail(files), web)

\* A load that would start from empty lists.
LoadedFresh(b, files, web) ==
    LET r == ReadFiles([b EXCEPT !.swdList = << >>, !.freqList = << >>, !.dateList = << >>],
                       files, web)
    IN  IF r.status # "ok" THEN r ELSE PrepData(r.buoy)

\* The body shared by the two loads: the files are read, then _prepData.
Loaded(b, files, web) ==
    LET r == ReadFiles(b, files, web)
    IN  IF r.status # "ok" THEN r ELSE PrepData(r.buoy)

InitBuoy ==
    /\ cls = "Buoy"
    /\ buoy = [swdList |-> << >>, freqList |-> << >>, dateList |-> << >>,
               Hs |-> << >>, T |-> << >>, dateNum |-> << >>]
    /\ hyper = None /\ fit = None
    /\ time_ss = None /\ time_r = None /\ nb_steps = None
    /\ Hs_ReturnContours = None /\ T_ReturnContours = None
    /\ Hs_SampleCA = None /\ T_SampleCA = None
    /\ Hs_SampleFSS = None /\ T_SampleFSS = None /\ Weight_SampleFSS = None
    /\ contourMean_Hs = None /\ contourMean_T = None
    /\ rng = 0
    /\ ret = Outcome("__init__", "ok", << >>, << >>)
    /\ fssCall = None
    /\ calls = 0

LoadFromText(dirPath) ==
    /\ calls' = calls + 1
    /\ IF ~IsSet(dirPath)
       THEN /\ ret' = Outcome("loadFromText",
                              "IOError: Could not find directory containing NDBC data",
                              <<dirPath>>, << >>)
            /\ UNCHANGED buoy
       ELSE IF Val(dirPath) = << >>
       THEN /\ ret' = Outcome("loadFromText", "IOError: No NDBC data files found",
                              <<dirPath>>, << >>)
            /\ UNCHANGED buoy
       ELSE \E r \in {Loaded(buoy, Val(dirPath), FALSE)} :
                /\ buoy' = r.buoy
                /\ ret' = Outcome("loadFromText", r.status, <<dirPath>>, << >>)
    /\ UNCHANGED <<cls, hyper, fit, contourArgs, contour, samplesCA, samplesFSS,
                   bootMean, rng>>

FetchFromWeb(site) ==
    /\ calls' = calls + 1
    /\ IF ~IsSet(site)
       THEN /\ ret' = Outcome("fetchFromWeb",
                              "Exception: Spectral wave density data for given buoy not found",
                              <<site>>, << >>)
            /\ UNCHANGED buoy
       ELSE \E r \in {Loaded(buoy, Val(site), TRUE)} :
                /\ buoy' = r.buoy
                /\ ret' = Outcome("fetchFromWeb", r.status, <<site>>, << >>)
    /\ UNCHANGED <<cls, hyper, fit, contourArgs, contour, samplesCA, samplesFSS,
                   bootMean, rng>>

NextBuoy ==
    \/ \E d \in Directories : calls < MaxLoads /\ LoadFromText(d)
    \/ \E s \in Sites : calls < MaxLoads /\ FetchFromWeb(s)

SpecBuoy == InitBuoy /\ [][NextBuoy]_vars

(***************************************************************************)
(* Properties of bootStrap, checked under SpecBoot.                        *)
(***************************************************************************)
\* C1: for every variant on which getContours has run with arguments that
\* broadcast, bootStrap builds its replicate estimators: the call does not
\* stop at line 276 with essccopy never assigned.
C1_BuildsReplicate ==
    (/\ ret.op = "bootStrap"
     /\ IsSet(nb_steps)
     /\ BroadcastLen(Len(Val(time_r)), Val(nb_steps)) # 0)
    => ret.outcome # "UnboundLocalError: essccopy"

\* What a caller can read after bootStrap: the arrays returned and the
\* attributes contourMean_Hs and contourMean_T.
Exposed ==
    {ret.val[i] : i \in 1..Len(ret.val)}
    \cup (IF IsSet(contourMean_Hs) THEN {Val(contourMean_Hs), Val(contourMean_T)} ELSE {})

\* C2, as the code has it: a completed bootStrap call returns, and stores
\* in contourMean_Hs and contourMean_T, the mean of Hs and of T over the
\* replicate contours at each of the nb_steps contour points, and nothing
\* else.
C2_MeanExposed ==
    [][(calls' = calls + 1 /\ ret'.op = "bootStrap" /\ ret'.outcome = "ok")
       => \A boot \in {BootContours(cls, buoy, hyper, Val(time_ss), Val(time_r),
                                    Val(nb_steps), ret'.args[1], rng)} :
            /\ Len(ret'.val) = 2
            /\ Len(ret'.val[1]) = Val(nb_steps) /\ Len(ret'.val[2]) = Val(nb_steps)
            /\ \A j \in 1..Val(nb_steps) :
                  /\ ret'.val[1][j] = Mean(Arr([i \in 1..ret'.args[1] |-> boot[i].Hs[j]]))
                  /\ ret'.val[2][j] = Mean(Arr([i \in 1..ret'.args[1] |-> boot[i].T[j]]))
            /\ contourMean_Hs' = Some(ret'.val[1])
            /\ contourMean_T' = Some(ret'.val[2])]_vars

\* C2 reached: the mean of two replicates that is not the contour the
\* estimator itself holds.
C2_Witness ==
    /\ ret.op = "bootStrap" /\ ret.outcome = "ok" /\ ret.args[1] = 2
    /\ contourMean_Hs = Some(ret.val[1])
    /\ contourMean_Hs # Hs_ReturnContours

\* C2 as stated: a completed bootStrap call exposes, besides the mean, the
\* pointwise 2.5th and 97.5th percentiles of Hs and of T over the replicate
\* contours.
C2_PercentilesExposed ==
    [][(calls' = calls + 1 /\ ret'.op = "bootStrap" /\ ret'.outcome = "ok")
       => \A st \in {BootResult(cls, buoy, hyper, Val(time_ss), Val(time_r),
                                Val(nb_steps), ret'.args[1], rng).stats} :
            {st.contour2_5_Hs, st.contour97_5_Hs,
             st.contour2_5_T, st.contour97_5_T} \subseteq Exposed']_vars

(***************************************************************************)
(* Properties of getSamples, checked under SpecSamples and SpecSeeded.     *)
(***************************************************************************)
\* C3: getSamples called with three arguments on a copula variant raises
\* NotImplementedError and nothing else.
C3_NotImplemented ==
    (ret.op = "getSamples" /\ cls # "PCA") => ret.outcome = "NotImplementedError"

\* The probability mass the samples stand for, in units of
\* 1 / (PDen * TwoPi): over the intervals between consecutive contour
\* probabilities, the first starting at probability 1, the mass of the
\* interval times the angle of the circle that is sampled in it.
SampledMass(f, ts, contour_returns) ==
    SumSeq(Arr([i \in 1..Len(contour_returns) |->
        (ContourProbs(ts, contour_returns)[i] - ContourProbs(ts, contour_returns)[i + 1])
        * AngularDist(AlphaBounds(SamplingZeroLine(f, BetaLines(ts, contour_returns)),
                                  BetaLines(ts, contour_returns)[i + 1]))]))

\* No interval is cut by the Hs = 0 line.
WholeCircle(f, ts, contour_returns) ==
    \A i \in 1..Len(contour_returns) :
        AngularDist(AlphaBounds(SamplingZeroLine(f, BetaLines(ts, contour_returns)),
                                BetaLines(ts, contour_returns)[i + 1])) = TwoPi

\* The sum of the numerators of the weights w.
SumNum(w) == SumSeq(Arr([q \in 1..Len(w) |-> w[q].num]))

\* C4, as the code has it: the weights returned by getSamples add up to the
\* sampled mass of the intervals that start at probability 1, which is
\* 1 minus the smallest requested probability when no interval is cut by
\* the Hs = 0 line, whatever num_contour_points is.
C4_WeightSum ==
    (ret.op = "getSamples" /\ ret.outcome = "ok")
    => /\ \A q \in 1..Len(ret.val[3]) : ret.val[3][q].den = PDen * TwoPi * ret.args[1]
       /\ SumNum(ret.val[3]) = ret.args[1] * SampledMass(fit, Val(time_ss), ret.args[2])
       /\ WholeCircle(fit, Val(time_ss), ret.args[2])
          => SampledMass(fit, Val(time_ss), ret.args[2])
             = TwoPi * (PDen - FailureProb(Val(time_ss), ret.args[2][Len(ret.args[2])]))

\* C4 reached: two points per interval, two return periods, and an interval
\* cut by the Hs = 0 line.
C4_Witness ==
    /\ ret.op = "getSamples" /\ ret.outcome = "ok"
    /\ ret.args[1] = 2 /\ Len(ret.args[2]) = 2
    /\ ~WholeCircle(fit, Val(time_ss), ret.args[2])

\* C4 as stated: the weights add up to the mass between the largest and the
\* smallest requested contour probability.
C4_MassBetweenRequested ==
    (ret.op = "getSamples" /\ ret.outcome = "ok")
    => /\ \A q \in 1..Len(ret.val[3]) : ret.val[3][q].den = PDen * TwoPi * ret.args[1]
       /\ SumNum(ret.val[3])
          = ret.args[1] * TwoPi * (MaxOf(Tail(ContourProbs(Val(time_ss), ret.args[2])))
                                   - MinOf(Tail(ContourProbs(Val(time_ss), ret.args[2]))))

\* The samples stored by getSamples, without the history.
storedSamples == <<Hs_SampleFSS, T_SampleFSS, Weight_SampleFSS>>

\* C5, as the code has it: a seeded getSamples call that repeats the
\* arguments of the call that stored the present samples, the stored time_ss
\* being the same, stores and returns the same samples, whatever was drawn
\* in between.
C5_SeededRepeatable ==
    [][(/\ calls' = calls + 1
        /\ ret'.op = "getSamples" /\ ret'.outcome = "ok"
        /\ IsSet(ret'.args[3])
        /\ IsSet(fssCall)
        /\ Val(fssCall).args = ret'.args
        /\ Val(fssCall).time_ss = Val(time_ss))
       => /\ storedSamples' = storedSamples
          /\ ret'.val = <<Val(Hs_SampleFSS), Val(T_SampleFSS), Val(Weight_SampleFSS)>>]_vars

\* C5 reached: the second of two calls with the same seed, arguments and
\* time_ss, the generator having moved between them.
C5_Witness ==
    /\ ret.op = "getSamples" /\ ret.outcome = "ok"
    /\ IsSet(ret.args[3])
    /\ IsSet(fssCall) /\ Val(fssCall).nth >= 2 /\ Val(fssCall).drew

\* C5 as stated: the same seed and arguments give the same samples on the
\* same fitted model, whatever happened in between.
C5_SameParameters ==
    [][(/\ calls' = calls + 1
        /\ ret'.op = "getSamples" /\ ret'.outcome = "ok"
        /\ IsSet(ret'.args[3])
        /\ IsSet(fssCall)
        /\ Val(fssCall).args = ret'.args)
       => storedSamples' = storedSamples]_vars

(***************************************************************************)
(* Properties of getContours and getContourPoints, checked under           *)
(* SpecContours.                                                           *)
(***************************************************************************)
\* The stored contour is closed: its first and last point are the same.
Closed ==
    /\ Val(Hs_ReturnContours)[1] = Val(Hs_ReturnContours)[Len(Val(Hs_ReturnContours))]
    /\ Val(T_ReturnContours)[1] = Val(T_ReturnContours)[Len(Val(T_ReturnContours))]

\* C6: on a stored closed contour getContourPoints gets as far as the
\* interpolation, whichever branch has the larger Hs and whichever
\* extremum of T comes first: it returns, or rejects a query out of range.
C6_ReachesInterpolation ==
    (ret.op = "getContourPoints" /\ IsSet(T_ReturnContours) /\ Closed)
    => ret.outcome \in {"ok", "ValueError: A value in x_new is outside the interpolation range"}

C8_HsNonNegative ==
    /\ IsSet(Hs_ReturnContours)
       => \A j \in 1..Len(Val(Hs_ReturnContours)) : Val(Hs_ReturnContours)[j] >= 0
    /\ (ret.op = "getContours" /\ ret.outcome = "ok")
       => \A j \in 1..Len(ret.val[1]) : ret.val[1][j] >= 0

\* C8 reached: a PCA contour with a point on the floor Hs = 0.
C8_Witness ==
    /\ cls = "PCA" /\ ret.op = "getContours" /\ ret.outcome = "ok"
    /\ \E j \in 1..Len(ret.val[1]) : ret.val[1][j] = 0
    /\ Val(Hs_ReturnContours) = ret.val[1]

\* C9: a contour returned by getContours has nb_steps points, the first and
\* the last being the same point.
C9_ClosedCurve ==
    (ret.op = "getContours" /\ ret.outcome = "ok")
    => /\ Len(ret.val[1]) = ret.args[3] /\ Len(ret.val[2]) = ret.args[3]
       /\ ret.val[1][1] = ret.val[1][ret.args[3]]
       /\ ret.val[2][1] = ret.val[2][ret.args[3]]

\* C10: getContours completes for time_r of any length and every nb_steps.
C10_AnyLength ==
    ret.op = "getContours" => ret.outcome = "ok"

(***************************************************************************)
(* Properties of the life of one estimator, checked under SpecLifecycle.   *)
(***************************************************************************)
\* C11: a getContours call that succeeds with the time_ss, time_r and
\* nb_steps of the getContours call before it returns and stores the very
\* contour that call left, whatever getSamples, getContourPoints, steepness
\* or bootStrap did in between.
C11_SameContour ==
    [][(/\ calls' = calls + 1
        /\ ret'.op = "getContours"
        /\ ret'.outcome = "ok"
        /\ contourArgs = <<Some(ret'.args[1]), Some(ret'.args[2]), Some(ret'.args[3])>>)
       => /\ contour' = contour
          /\ ret'.val = <<Val(Hs_ReturnContours), Val(T_ReturnContours)>>]_vars

\* A contour computed again after getSamples drew samples for the same
\* sea-state duration.
C11_Witness ==
    /\ ret.op = "getContours"
    /\ ret.outcome = "ok"
    /\ IsSet(fssCall)
    /\ Val(fssCall).time_ss = ret.args[1]
    /\ calls = MaxCalls

\* C12: no call of getContours, getSamples, getContourPoints, steepness or
\* bootStrap changes the fitted parameters of the estimator or the Hs and T
\* of its own buoy.
C12_FitImmutable == [][fit' = fit /\ buoy' = buoy]_vars

\* bootStrap has drawn its resample (the call got past line 258) on an
\* estimator that computed a contour and served another call before.
C12_Witness ==
    /\ calls = MaxCalls
    /\ ret.op = "bootStrap"
    /\ ret.outcome # "AttributeError: nb_steps"
    /\ IsSet(Hs_ReturnContours)
    /\ fit = FitOf(cls, buoy, hyper)

\* C18: after every call, a stored contour has exactly the stored nb_steps
\* points and is the contour of the stored time_ss, time_r and nb_steps, and
\* no call but getContours changes it.
C18_ContourOfStoredArgs ==
    [][/\ IsSet(Hs_ReturnContours') =>
             /\ Len(Val(Hs_ReturnContours')) = Val(nb_steps')
             /\ Len(Val(T_ReturnContours')) = Val(nb_steps')
             /\ BroadcastLen(Len(Val(time_r')), Val(nb_steps')) # 0
       /\ contour' # contour => ret'.op = "getContours"]_vars

(***************************************************************************)
(* Properties of the PCA fit, checked under SpecFit.                       *)
(***************************************************************************)
\* Rows of unit norm and orthogonal to each other, for a matrix whose
\* entries are multiples of 1 / CoeffDen.
Orthonormal(m) ==
    /\ m[1][1] * m[1][1] + m[1][2] * m[1][2] = CoeffDen * CoeffDen
    /\ m[2][1] * m[2][1] + m[2][2] * m[2][2] = CoeffDen * CoeffDen
    /\ m[1][1] * m[2][1] + m[1][2] * m[2][2] = 0

\* The determinant, in units of 1 / CoeffDen ^ 2.
Det(m) == m[1][1] * m[2][2] - m[1][2] * m[2][1]

\* C13: the fitted coeff is orthonormal, its entries [0,0], [0,1], [1,0]
\* are non-negative and its entry [1,1] is non-positive, and it is the same
\* matrix whichever direction the decomposition returned the axes in.
C13_Orthonormal ==
    Fitted => /\ Orthonormal(fit.coeff)
              /\ fit.coeff[1][1] >= 0 /\ fit.coeff[1][2] >= 0
              /\ fit.coeff[2][1] >= 0 /\ fit.coeff[2][2] <= 0
              /\ fit.coeff = SignConvention(PcaComponents(buoy))

\* A fit whose decomposition returned the first axis pointing to negative
\* Hs and T and the second with a positive entry [1,1].
C13_Witness ==
    /\ ret.op = "__init__" /\ ret.outcome = "ok"
    /\ ret.val[1][1][1] < 0 /\ ret.val[1][1][2] < 0
    /\ ret.val[1][2][2] > 0

\* C14, as the code has it: the fitted coeff is orthonormal with
\* determinant -1: a rotation followed by a reflection, not a proper
\* rotation.
C14_Reflection ==
    Fitted => Orthonormal(fit.coeff) /\ Det(fit.coeff) = -(CoeffDen * CoeffDen)

\* A fit whose decomposition returned a proper rotation.
C14_Witness ==
    /\ ret.op = "__init__" /\ ret.outcome = "ok"
    /\ Det(ret.val[1]) = CoeffDen * CoeffDen

\* C14, as stated: the fitted coeff is orthonormal with determinant +1.
C14_ProperRotation ==
    Fitted => Orthonormal(fit.coeff) /\ Det(fit.coeff) = CoeffDen * CoeffDen

\* C15: a point (Hs, T) multiplied by coeff, its component 2 shifted, and
\* handed to __princomp_inv with the same coeff and shift comes back as
\* (Hs, T).  The points are on the grid of 0.05 on which the fixed-point
\* rotation is exact.
C15_RoundTrip == ret.op = "__princomp_inv" => ret.val = ret.args

\* A point with Hs > 0 whose rotated component 2 is negative before the
\* shift.
C15_Witness ==
    /\ ret.op = "__princomp_inv"
    /\ ret.args[1] > 0
    /\ Rotate(ret.args[1], ret.args[2], fit.coeff)[2] < 0
    /\ fit.shift > 0

\* C16: after the fit, component 2 of every point of the sample plus shift
\* is strictly positive.
C16_ShiftedPositive ==
    Fitted => \A i \in 1..Len(buoy.Hs) :
                 Rotate(buoy.Hs[i], buoy.T[i], fit.coeff)[2] + fit.shift > 0

\* A fit on a sample whose smallest component 2 is positive.
C16_Witness ==
    /\ Fitted
    /\ \A i \in 1..Len(buoy.Hs) : Rotate(buoy.Hs[i], buoy.T[i], fit.coeff)[2] > 0

\* The sample the estimator is built on is not valid: fewer than two
\* points, or, for a copula class, a T that is not positive or a bin that
\* holds no observation (the bins of the PCA class are never empty).
InvalidSample ==
    \/ Len(buoy.Hs) < 2
    \/ /\ cls # "PCA"
       /\ \/ \E i \in 1..Len(buoy.T) : buoy.T[i] <= 0
          \/ \E bins \in {CopulaBins(Ind(buoy.Hs, hyper.n_size, hyper.bin_1_limit,
                                         hyper.bin_step), Len(buoy.Hs))} :
                \E k \in 1..Len(bins) : EmptyRange(bins[k].lnT)

\* C17: the constructor of an estimator on a sample that is not valid
\* fails; it does not return an estimator.
C17_InvalidInputRejected ==
    (ret.op = "__init__" /\ InvalidSample) => ret.outcome # "ok"

\* The number of observations that the bin loop of lines 414-420 finds in
\* bin number bin_loop.
BinCount(bin_inds, bin_loop) == Len(MaskBins(bin_inds, bin_loop))

\* C20: when the fit reaches the binning (the sample has two points or
\* more), there are ceil(N / size_bin) bins, every observation is in one
\* of them, every bin but the last holds size_bin observations and the last
\* holds between 1 and size_bin.
C20_FixedSizeBins ==
    (ret.op = "__init__" /\ Len(buoy.Hs) >= 2) =>
        \A bin_inds \in {BinInds(Len(buoy.Hs), hyper.size_bin)} :
            \A k \in {(Len(buoy.Hs) + hyper.size_bin.val - 1) \div hyper.size_bin.val} :
                /\ NumBins(bin_inds) = k
                /\ \A i \in 1..Len(bin_inds) : bin_inds[i] \in 0..(k - 1)
                /\ \A j \in 0..(k - 2) : BinCount(bin_inds, j) = hyper.size_bin.val
                /\ BinCount(bin_inds, k - 1) \in 1..hyper.size_bin.val

(***************************************************************************)
(* The stored samples as a whole, checked under SpecSamples.               *)
(***************************************************************************)
\* C19: every call leaves Hs_SampleFSS, T_SampleFSS and Weight_SampleFSS as
\* they were, unless it is a getSamples call that succeeds, which replaces
\* the three by the arrays it returns, each of length len(contour_returns) *
\* num_contour_points.
C19_AllOrNothing ==
    [][\/ UNCHANGED <<Hs_SampleFSS, T_SampleFSS, Weight_SampleFSS>>
       \/ /\ ret'.op = "getSamples"
          /\ ret'.outcome = "ok"
          /\ <<Hs_SampleFSS', T_SampleFSS', Weight_SampleFSS'>>
                = <<Some(ret'.val[1]), Some(ret'.val[2]), Some(ret'.val[3])>>
          /\ \A i \in 1..3 : Len(ret'.val[i]) = Len(ret'.args[2]) * ret'.args[1]]_vars

\* Samples of two intervals, two to an interval, stored over the samples
\* of an earlier call.
C19_Witness ==
    /\ ret.op = "getSamples"
    /\ ret.outcome = "ok"
    /\ Len(ret.args[2]) = 2
    /\ ret.args[1] = 2
    /\ Val(fssCall).nth = 2
    /\ Len(Val(Weight_SampleFSS)) = 4

(***************************************************************************)
(* Properties of the copula fit, checked under SpecBinning.                *)
(***************************************************************************)
BinsFitted == ret.op = "__getCopulaParams" /\ ret.outcome = "fitted"

\* Position p of the sorted sample lies in range(r[1], r[2]).
InRange(p, r) == r[1] <= p /\ p < r[2]

\* The bins whose fit of ln(T) uses position p.
BinsHolding(p, bins) == {k \in 1..Len(bins) : InRange(p, bins[k].lnT)}

\* What the bins share with the description whether they overlap or not:
\* the first bin holds the observations with Hs <= bin_1_limit, the upper
\* edge of each following bin but the last is bin_step higher, every pass
\* before the last one added at least n_size observations, and the last
\* bin ends at the top of the data.
BinEdges(Hs, ind, bins) ==
    LET num == Len(ind)
    IN  /\ Len(bins) = num + 1
        /\ bins[1].lnT = <<0, CountLeq(Hs, hyper.bin_1_limit)>>
        /\ \A k \in 2..num :
              bins[k].lnT[2] = CountLeq(Hs, hyper.bin_1_limit + hyper.bin_step * (k - 1))
        /\ \A k \in 2..(num - 1) : ind[k] - ind[k - 1] >= hyper.n_size
        /\ bins[num + 1].lnT[2] = Len(Hs)

\* C21 (as amended): the first bin of the copula fit holds the observations
\* with Hs <= bin_1_limit, the upper edge of each following bin is bin_step
\* higher, binning stops once the newest edge added fewer than n_size
\* observations or 200 edges were counted, the last bin ends at the top of
\* the data, and the bins overlap: every observation is in one or two
\* bins, and every observation below the last edge is in exactly two.
C21_OverlappingBins ==
    BinsFitted =>
        LET Hs == ret.args[1]
            ind == ret.val[1]
            bins == ret.val[2]
            num == Len(ind)
        IN  /\ BinEdges(Hs, ind, bins)
            /\ ind[num] - ind[num - 1] < hyper.n_size \/ num = BinLoopEnd
            /\ \A p \in 0..(Len(Hs) - 1) :
                  /\ Cardinality(BinsHolding(p, bins)) \in 1..2
                  /\ p < ind[num] => Cardinality(BinsHolding(p, bins)) = 2

C21_Witness ==
    /\ BinsFitted
    /\ hyper.n_size > 0
    /\ Len(ret.val[1]) >= 4
    /\ Len(ret.args[1]) = 6

\* C21 (as claimed): the same edges, binning stops once the newest bin
\* holds fewer than n_size observations, and every observation belongs to
\* exactly one bin.
C21_Partition ==
    BinsFitted =>
        LET Hs == ret.args[1]
            ind == ret.val[1]
            bins == ret.val[2]
            num == Len(ind)
        IN  /\ BinEdges(Hs, ind, bins)
            /\ ind[num] - ind[num - 1] < hyper.n_size
            /\ \A p \in 0..(Len(Hs) - 1) : Cardinality(BinsHolding(p, bins)) = 1

\* C22: for every bin of the copula fit the recorded mean of Hs is the mean
\* over exactly the observations whose ln(T) enters the normal fit of that
\* bin.
C22_SameObservations ==
    BinsFitted =>
        \A k \in 1..Len(ret.val[2]) :
            ret.val[3][k] = MeanRange(ret.args[1], ret.val[2][k].lnT)

(***************************************************************************)
(* Properties of the penalty fit of sigma, checked under SpecSigma.        *)
(***************************************************************************)
\* The largest change of a parameter between sig_0 and sig_1.
MaxAbsDiff(sig_1, sig_0) == MaxOf(Arr([i \in 1..3 |-> Abs(sig_1[i] - sig_0[i])]))

\* The parameter vector and the objective both changed by no more than
\* epsilon between the last two iterates of the call held in ret.
ToleranceMet ==
    /\ MaxAbsDiff(ret.val.sig_1, ret.val.sig_0) <= Epsilon
    /\ Abs(objfun(ret.val.sig_1, ret.args[1], ret.args[2])
           - objfun(ret.val.sig_0, ret.args[1], ret.args[2])) <= Epsilon

\* C23: __sigma_fits leaves its loop and returns only when the last two
\* parameter vectors and the last two objective values both differ by less
\* than the tolerance; it never returns while either change is above it.
C23_StopsWithinTolerance ==
    [][(ret.op = "__sigma_fits" /\ ret.outcome = "while" /\ ret'.outcome = "ok")
          => ToleranceMet]_vars

\* C24: the first minimization of __sigma_fits has penalty weight 1 and
\* each later one has 10 times the weight of the one before it and starts
\* from the result of the one before it.
C24_GeometricWeights ==
    ret.op = "__sigma_fits" =>
        /\ ret.val.fmins[1].rho = 1
        /\ \A k \in 2..Len(ret.val.fmins) :
              /\ ret.val.fmins[k].rho = 10 * ret.val.fmins[k - 1].rho
              /\ ret.val.fmins[k].x0 = ret.val.fmins[k - 1].xopt

\* C25: __sigma_fits makes no more than a bounded number of minimizations,
\* and a call that has not met the tolerance by then ends in a failure of
\* convergence, never in a parameter vector: every vector it returns has
\* met the tolerance.
C25_BoundedOrSurfaced ==
    ret.op = "__sigma_fits" =>
        /\ Len(ret.val.fmins) <= MaxOuter + 1
        /\ ret.outcome \in {"while", "ok", "NumericalNonConvergence"}
        /\ (Len(ret.val.fmins) = MaxOuter + 1 /\ ~ToleranceMet)
               => ret.outcome = "NumericalNonConvergence"
        /\ ret.outcome = "ok" => ToleranceMet

(***************************************************************************)
(* Properties of the Gumbel contour, checked under SpecGumbel.             *)
(***************************************************************************)
\* C26: for every angle k done, the component 2 value of the Gumbel
\* contour is the grid minimum when the target fi_u2[k] is at or below the
\* first value of the grid CDF, otherwise the midpoint of the first grid
\* point whose CDF reaches the target and its predecessor, and the grid
\* maximum when no CDF value reaches the target; it lies within the grid,
\* and of two angles with the same CDF table the one with the larger
\* target has no smaller a value.
C26_GridSearch ==
    (ret.op = "getContours" /\ ret.outcome = "for k") =>
        \A k \in 1..Len(ret.val.comp_2_Gumb) :
            LET x2 == GridX2(buoy, hyper.Ndata)
                cdf == GumbelTable(fit, buoy, hyper.Ndata, ret.val.U1[k])
                fi == ret.val.fi_u2[k]
                v == ret.val.comp_2_Gumb[k]
                Reach == {j \in 1..Len(x2) : fi <= cdf[j]}
            IN  /\ fi <= cdf[1] => v = MinOf(x2)
                /\ (fi > cdf[1] /\ Reach # {}) =>
                       \E j \in Reach : /\ \A i \in Reach : j <= i
                                         /\ v = (x2[j] + x2[j - 1]) \div 2
                /\ Reach = {} => v = MaxOf(x2)
                /\ MinOf(x2) <= v /\ v <= MaxOf(x2)
                /\ \A k2 \in 1..Len(ret.val.comp_2_Gumb) :
                       (ret.val.U1[k2] = ret.val.U1[k] /\ fi <= ret.val.fi_u2[k2])
                          => v <= ret.val.comp_2_Gumb[k2]

C26_Witness ==
    /\ ret.op = "getContours" /\ ret.outcome = "for k"
    /\ Len(ret.val.comp_2_Gumb) = ret.args[3]
    /\ \E k \in 1..ret.args[3], k2 \in 1..ret.args[3] :
          /\ ret.val.U1[k2] = ret.val.U1[k]
          /\ ret.val.fi_u2[k] < ret.val.fi_u2[k2]
          /\ ret.val.comp_2_Gumb[k] < ret.val.comp_2_Gumb[k2]
          /\ ret.val.comp_2_Gumb[k] > 0

(***************************************************************************)
(* Properties of __generateData, checked under SpecGenerate.               *)
(***************************************************************************)
\* C27: for every num_contour_points >= 1 getSamples does not fail, and in
\* every contour interval done the grid Alpha cuts the angular span of the
\* interval into num_contour_points equal sub-arcs, with one sample in each
\* whose angle lies within the sub-arc and whose radius lies between the
\* inner and the outer radius of the interval.
C27_OnePointPerSubArc ==
    ret.op = "getSamples" =>
        /\ ret.outcome \in {"for i", "ok"}
        /\ ret.outcome = "for i" =>
              \A i \in 1..Len(ret.val.Alpha_bounds) :
                  LET np == ret.args[1]
                      A == ret.val.Alpha[i]
                      ab == ret.val.Alpha_bounds[i]
                  IN  /\ Len(A) = np + 1
                      /\ A[1] = ab.lo /\ A[np + 1] = ab.hi
                      /\ \A j \in 1..np :
                            /\ Abs(np * (A[j + 1] - A[j]) - (ab.hi - ab.lo)) <= np
                            /\ A[j] <= ret.val.Sample_alpha[(i - 1) * np + j]
                            /\ ret.val.Sample_alpha[(i - 1) * np + j] <= A[j + 1]
                            /\ ret.val.beta_lines[i] <= ret.val.Sample_beta[(i - 1) * np + j]
                            /\ ret.val.Sample_beta[(i - 1) * np + j] <= ret.val.beta_lines[i + 1]

\* C28: in every contour interval getSamples finds the angular span
\* without failing: when some point of the Hs = 0 line has a radius
\* smaller than that of the outer circle of the interval the span is the
\* arc between the first and the last such point, otherwise it is the
\* whole circle.
C28_SpanFromBoundary ==
    ret.op = "getSamples" =>
        /\ ret.outcome #
              "ValueError: zero-size array to reduction operation minimum which has no identity"
        /\ ret.outcome = "for i" =>
              \A i \in 1..Len(ret.val.Alpha_bounds) :
                  LET zl == ret.val.zeroline
                      inside == {k \in 1..Len(zl) : zl[k].Rho < ret.val.beta_lines[i + 1]}
                      ab == ret.val.Alpha_bounds[i]
                  IN  IF inside = {} THEN ab = [lo |-> 0, hi |-> TwoPi]
                      ELSE \E l \in inside, r \in inside :
                              /\ \A k \in inside : l <= k /\ k <= r
                              /\ {ab.lo, ab.hi} = {zl[l].Theta, zl[r].Theta - TwoPi}

(***************************************************************************)
(* The order of the calls, checked under SpecLifecycle.                    *)
(***************************************************************************)
\* C29: on a PCA estimator on which getContours has not been called (time_ss
\* is not set), every call of getSamples, getContourPoints or bootStrap
\* fails, on the attribute it reads that only getContours sets, and leaves
\* the stored contour, the stored samples and the bootstrap means as they
\* were.
C29_NeedsContours ==
    [][(cls = "PCA" /\ ~IsSet(time_ss)
            /\ ret'.op \in {"getSamples", "getContourPoints", "bootStrap"})
        => /\ ret'.outcome =
                 (CASE ret'.op = "getSamples" -> "AttributeError: time_ss"
                    [] ret'.op = "getContourPoints" -> "TypeError: NoneType"
                    [] ret'.op = "bootStrap" -> "AttributeError: nb_steps")
           /\ UNCHANGED <<contour, samplesCA, samplesFSS, bootMean>>]_vars

\* getSamples has failed as the third call on a PCA estimator that has
\* made no getContours call.
C29_Witness ==
    /\ cls = "PCA"
    /\ ~IsSet(time_ss)
    /\ calls = 3
    /\ ret.op = "getSamples"
    /\ ret.outcome = "AttributeError: time_ss"
    /\ Hs_SampleFSS = None /\ Hs_ReturnContours = None /\ contourMean_Hs = None

(***************************************************************************)
(* Properties of the Buoy loads, checked under SpecBuoy.                   *)
(***************************************************************************)
\* A line is a valid record when its second spectral value is below 999
\* and neither its Hs nor its T is NaN.
ValidLine(line, freqArr) ==
    ~isnan(StatsOfLine(line, freqArr).Hm0) /\ ~isnan(StatsOfLine(line, freqArr).T)
ValidRecords(files, web) ==
    SumSeq(Arr([f \in 1..Len(files) |->
        Cardinality({k \in 1..Len(files[f].lines) :
            LET ntv == NumTimeVals(files[f], web)
                line == files[f].lines[k]
            IN  /\ line[ntv + 2] < Missing
                /\ ValidLine(SubSeq(line, ntv + 1, Len(line)), files[f].header.freq)})]))
\* The valid rows among the arrays of the lists.
ValidRows(b) ==
    SumSeq(Arr([ii \in 1..Len(b.swdList) |->
        Cardinality({k \in 1..Len(b.swdList[ii]) :
                        ValidLine(b.swdList[ii][k], b.freqList[ii])})]))
IsPrefix(s, t) == Len(s) <= Len(t) /\ SubSeq(t, 1, Len(s)) = s
RECURSIVE Copies(_, _)
Copies(s, k) == IF k = 0 THEN << >> ELSE s \o Copies(s, k - 1)
LoadOk(r) == r.op \in {"loadFromText", "fetchFromWeb"} /\ r.outcome = "ok"

\* C30: a load that succeeds appends one array per file to each of
\* swdList, freqList and dateList, keeping the arrays they held, and leaves
\* in Hs, T and dateNum one entry for every valid row of the whole lists:
\* as many more than before as the files hold valid records, so that the
\* lists holding k times the arrays of m valid records give k * m entries.
\* After every load Hs, T and dateNum have the same length and neither Hs
\* nor T holds a NaN.
C30_CumulativeLoads ==
    [][/\ Len(buoy'.Hs) = Len(buoy'.T) /\ Len(buoy'.T) = Len(buoy'.dateNum)
       /\ \A i \in 1..Len(buoy'.Hs) : ~isnan(buoy'.Hs[i]) /\ ~isnan(buoy'.T[i])
       /\ LoadOk(ret') =>
            LET files == Val(ret'.args[1])
                m == ValidRecords(files, ret'.op = "fetchFromWeb")
                own == SubSeq(buoy'.swdList, Len(buoy.swdList) + 1, Len(buoy'.swdList))
            IN  /\ IsPrefix(buoy.swdList, buoy'.swdList)
                /\ IsPrefix(buoy.freqList, buoy'.freqList)
                /\ \A L \in {"swdList", "freqList", "dateList"} :
                      Len(buoy'[L]) = Len(buoy[L]) + Len(files)
                /\ Len(buoy'.Hs) = ValidRows(buoy')
                /\ Len(buoy.Hs) = ValidRows(buoy) => Len(buoy'.Hs) = Len(buoy.Hs) + m
                /\ \A k \in 1..MaxLoads :
                      buoy'.swdList = Copies(own, k) => Len(buoy'.Hs) = k * m]_vars

\* The third load of the same two files, which hold three valid records
\* and two others.
C30_Witness ==
    /\ LoadOk(ret)
    /\ calls = 3
    /\ Val(ret.args[1]) = <<FileA, FileB>>
    /\ Len(buoy.swdList) = 6
    /\ buoy.swdList = Copies(SubSeq(buoy.swdList, 1, 2), 3)
    /\ Len(buoy.Hs) = 9 /\ Len(buoy.T) = 9 /\ Len(buoy.dateNum) = 9

====
